---------------------------- MODULE Spec2Model ----------------------------
(***************************************************************************)
(* A model of gocassa's CQL statement builder (statement.go, relation.go,  *)
(* the Modifier type and sortedKeys).                                      *)
(*                                                                         *)
(* Go strings are sequences of atoms.  An atom is one letter of an         *)
(* identifier or one literal chunk of CQL text written in the source       *)
(* ("SELECT", ", ", "?").  Concatenation is \o, strings.Join is Join,      *)
(* strings.ToLower maps the upper-case letters to lower case and           *)
(* sort.Strings orders by the byte codes of the letters.                   *)
(*                                                                         *)
(* An interface{} value is a record of one shape for every dynamic type:   *)
(*   kind   the dynamic type                                               *)
(*   s      the text of a string or the bytes of a byte slice              *)
(*   n, m   an int in n; a time.Time as n * 100000 + m Unix seconds        *)
(*   isnil  a nil slice                                                    *)
(*   l      the elements of a []interface{}, the arguments of a Modifier,  *)
(*          the key/value pairs of a map[string]interface{}                *)
(***************************************************************************)
EXTENDS Integers, Sequences, FiniteSets, TLC

VARIABLES stmt, call, err, out, io, heap, held, seen,
          result, iter, returned, rowsScanned, relation, cell, accepted,
          selected, outVal, scanned,
          mockTable, mockRows, mockOps, errorInjector, mockDone

vars == <<stmt, call, err, out, io, heap, held, seen,
          result, iter, returned, rowsScanned, relation, cell, accepted,
          selected, outVal, scanned,
          mockTable, mockRows, mockOps, errorInjector, mockDone>>

\* the memory the statements share with their caller: see "Shared memory"
shareVars == <<heap, held, seen>>

\* the scanner, the iterator it was last given and what ScanIter returned: see
\* "Scanner"
scanVars == <<result, iter, returned, rowsScanned>>

\* the relation, the stored value it was last asked about and its answer: see
\* "Relation evaluation"
acceptVars == <<relation, cell, accepted>>

\* the scanner's view of one record, cell by cell: see "Binding a row"
bindVars == <<selected, outVal, scanned>>

\* the mock store: the table, its rows, the multi-op in hand, the error
\* injector of its context and what the last operation left: see "Mock row
\* store"
mockVars == <<mockTable, mockRows, mockOps, errorInjector, mockDone>>

-----------------------------------------------------------------------------
(* Bounds of the model *)

MaxFields == 2    \* entries of a field map, names of a SELECT field list
MaxRels == 2      \* relations of a WHERE clause
MaxTerms == 2     \* terms of an In or tuple relation
MaxStrLen == 2    \* atoms of a term given to the sentinel functions
MaxStatements == 2  \* statements built over the shared memory
MaxWrites == 1    \* writes the caller makes to a collection it handed over
MaxRows == 2      \* rows an iterator yields
MaxScanned == 3   \* rows one scanner scans over its calls
MaxDepth == 2     \* pointer levels of a result target

-----------------------------------------------------------------------------
(* Strings *)

UPPER == <<"A", "B", "C", "D", "E", "F", "G", "H", "I", "J", "K", "L", "M",
           "N", "O", "P", "Q", "R", "S", "T", "U", "V", "W", "X", "Y", "Z">>

LOWER == <<"a", "b", "c", "d", "e", "f", "g", "h", "i", "j", "k", "l", "m",
           "n", "o", "p", "q", "r", "s", "t", "u", "v", "w", "x", "y", "z">>

IsUpper(ch) == \E i \in 1..Len(UPPER) : UPPER[i] = ch

IsLower(ch) == \E i \in 1..Len(LOWER) : LOWER[i] = ch

\* the byte of a letter: 'A' is 65, 'a' is 97
Code(ch) ==
    IF IsUpper(ch) THEN 64 + (CHOOSE i \in 1..Len(UPPER) : UPPER[i] = ch)
    ELSE IF IsLower(ch) THEN 96 + (CHOOSE i \in 1..Len(LOWER) : LOWER[i] = ch)
    ELSE 0

ToLowerAtom(ch) ==
    IF IsUpper(ch) THEN LOWER[CHOOSE i \in 1..Len(UPPER) : UPPER[i] = ch]
    ELSE ch

\* strings.ToLower
ToLower(s) == [i \in 1..Len(s) |-> ToLowerAtom(s[i])]

\* s < t for Go strings: byte-wise lexicographic
StrLess(s, t) ==
    \E i \in 1..(Len(t)) :
        /\ \A j \in 1..(i - 1) : j <= Len(s) /\ s[j] = t[j]
        /\ \/ i = Len(s) + 1
           \/ i <= Len(s) /\ Code(s[i]) < Code(t[i])

RECURSIVE Join(_, _)
\* strings.Join
Join(parts, sep) ==
    IF Len(parts) = 0 THEN <<>>
    ELSE IF Len(parts) = 1 THEN parts[1]
    ELSE parts[1] \o sep \o Join(Tail(parts), sep)

RECURSIVE Concat(_)
\* append(values, more...) over a list of lists
Concat(lists) ==
    IF Len(lists) = 0 THEN <<>> ELSE lists[1] \o Concat(Tail(lists))

RECURSIVE SortStrings(_)
\* sort.Strings of the set of keys of a map
SortStrings(S) ==
    IF S = {} THEN <<>>
    ELSE LET least == CHOOSE x \in S : \A y \in S \ {x} : StrLess(x, y)
         IN  <<least>> \o SortStrings(S \ {least})

-----------------------------------------------------------------------------
(* Values *)

Val(kind, s, n, m, isnil, l) ==
    [kind |-> kind, s |-> s, n |-> n, m |-> m, isnil |-> isnil, l |-> l]

StrV(s) == Val("string", s, 0, 0, FALSE, <<>>)
NamedStrV(s) == Val("namedstring", s, 0, 0, FALSE, <<>>)
BytesV(s) == Val("bytes", s, 0, 0, FALSE, <<>>)
NilBytes == Val("bytes", <<>>, 0, 0, TRUE, <<>>)
NamedBytesV(s) == Val("namedbytes", s, 0, 0, FALSE, <<>>)
TimeV(hi, lo) == Val("time", <<>>, hi, lo, FALSE, <<>>)
NamedTimeV(hi, lo) == Val("namedtime", <<>>, hi, lo, FALSE, <<>>)
IntV(n) == Val("int", <<>>, n, 0, FALSE, <<>>)
StructV == Val("struct", <<>>, 0, 0, FALSE, <<>>)
NilV == Val("nil", <<>>, 0, 0, TRUE, <<>>)
ListV(l) == Val("list", <<>>, 0, 0, FALSE, l)

\* a time.Time of kind "time" is n * 100000 + m seconds from the Unix epoch

ClusteringSentinel == <<"<gocassa.ClusteringSentinel>">>

\* time.Unix(-6847804725, 0)
ClusteringSentinelTimestamp == TimeV(-68479, 95275)

\* time.Time{}: January 1, year 1, 00:00:00 UTC, Unix -62135596800
ZeroTime == TimeV(-621356, 3200)

\* time.Time.IsZero / time.Time.Equal on the instant
TimeEqual(v, w) == v.n = w.n /\ v.m = w.m

ClusteringFieldOrSentinel_dropBytes(term) ==
    CASE term.kind = "string" ->
            IF Len(term.s) = 0 THEN StrV(ClusteringSentinel) ELSE term
      [] term.kind = "time" ->
            IF TimeEqual(term, ZeroTime) THEN ClusteringSentinelTimestamp ELSE term
      [] OTHER -> term

ClusteringFieldOrSentinel(term) ==
    CASE term.kind = "string" ->
            IF Len(term.s) = 0 THEN StrV(ClusteringSentinel) ELSE term
      [] term.kind = "bytes" ->
            IF Len(term.s) = 0 THEN BytesV(ClusteringSentinel) ELSE term
      [] term.kind = "time" ->
            IF TimeEqual(term, ZeroTime) THEN ClusteringSentinelTimestamp ELSE term
      [] OTHER -> term

\* reflect.New(val.Type()).Elem() and reflect.MakeSlice(val.Type(), 0, 0)
EmptyOfType(term) ==
    IF term.kind \in {"time", "namedtime"}
    THEN Val(term.kind, <<>>, ZeroTime.n, ZeroTime.m, FALSE, <<>>)
    ELSE Val(term.kind, <<>>, 0, 0, FALSE, <<>>)

IsClusteringSentinelValue_keepSentinel(term) ==
    <<term.kind \in {"string", "namedstring"} /\ term.s = ClusteringSentinel, term>>

\* the pair (is sentinel, non-sentinel value)
IsClusteringSentinelValue(term) ==
    CASE term.kind \in {"string", "namedstring"} ->
            IF term.s = ClusteringSentinel
            THEN <<TRUE, EmptyOfType(term)>> ELSE <<FALSE, term>>
      [] term.kind \in {"bytes", "namedbytes"} ->
            IF term.s = ClusteringSentinel
            THEN <<TRUE, EmptyOfType(term)>> ELSE <<FALSE, term>>
      [] term.kind \in {"time", "namedtime"} ->
            IF TimeEqual(term, ClusteringSentinelTimestamp)
            THEN <<TRUE, EmptyOfType(term)>> ELSE <<FALSE, term>>
      [] OTHER -> <<FALSE, term>>

-----------------------------------------------------------------------------
(* Relations: relation.go *)

Rel(cmp, field, terms) == [cmp |-> cmp, field |-> field, terms |-> terms]

Eq(field, term) == Rel("CmpEquality", field, <<term>>)
In(field, terms) == Rel("CmpIn", field, terms)
GT(field, term) == Rel("CmpGreaterThan", field, <<term>>)
GTE(field, term) == Rel("CmpGreaterThanOrEquals", field, <<term>>)
LT(field, term) == Rel("CmpLesserThan", field, <<term>>)
LTE(field, term) == Rel("CmpLesserThanOrEquals", field, <<term>>)

TupleComparators ==
    {"CmpTupleEquality", "CmpTupleGreaterThan", "CmpTupleGreaterThanOrEquals",
     "CmpTupleLesserThan", "CmpTupleLesserThanOrEquals"}

\* the constructors of the tuple relations: an ordered list of one or more terms
TupleRel(cmp, field, terms) == Rel(cmp, field, terms)

-----------------------------------------------------------------------------
(* Modifiers *)

Modifier(op, args) == Val("modifier", <<op>>, 0, 0, FALSE, args)

ListPrepend(value) == Modifier("ModifierListPrepend", <<value>>)
ListAppend(value) == Modifier("ModifierListAppend", <<value>>)
ListSetAtIndex(index, value) == Modifier("ModifierListSetAtIndex", <<IntV(index), value>>)
ListRemove(value) == Modifier("ModifierListRemove", <<value>>)
\* fields: the entries of the map as <<k1, v1, k2, v2, ...>>
MapSetFields(fields) ==
    Modifier("ModifierMapSetFields", <<Val("map", <<>>, 0, 0, FALSE, fields)>>)
MapSetField(key, value) == Modifier("ModifierMapSetField", <<key, value>>)
CounterIncrement(value) == Modifier("ModifierCounterIncrement", <<IntV(value)>>)

\* the order in which "for k, v := range fields" visits the n entries of a map:
\* the permutation p of the entry numbers, cut to the entries the map has
RangeOrder(n, p) == SelectSeq(p, LAMBDA i : i <= n)

ModifierCQL_unwrapped(m, name, p) ==
    LET op == m.s[1]
        args == m.l
    IN  CASE op = "ModifierListPrepend" ->
                [cql |-> name \o <<" = ", "?", " + ">> \o name,
                 values |-> <<args[1]>>]
          [] op = "ModifierListAppend" ->
                [cql |-> name \o <<" = ">> \o name \o <<" + ", "?">>,
                 values |-> <<args[1]>>]
          [] op = "ModifierListSetAtIndex" ->
                [cql |-> name \o <<"[", "?", "] = ", "?">>,
                 values |-> <<args[1], args[2]>>]
          [] op = "ModifierListRemove" ->
                [cql |-> name \o <<" = ">> \o name \o <<" - ", "?">>,
                 values |-> <<args[1]>>]
          [] op = "ModifierMapSetFields" ->
                LET fields == args[1].l
                    visit == RangeOrder(Len(fields) \div 2, p)
                IN  [cql |-> Join([i \in 1..Len(visit) |->
                                       name \o <<"[", "?", "] = ", "?">>], <<", ">>),
                     values |-> Concat([i \in 1..Len(visit) |->
                                       <<fields[2 * visit[i] - 1], fields[2 * visit[i]]>>])]
          [] op = "ModifierMapSetField" ->
                [cql |-> name \o <<"[", "?", "] = ", "?">>,
                 values |-> <<args[1], args[2]>>]
          [] op = "ModifierCounterIncrement" ->
                IF args[1].n > 0
                THEN [cql |-> name \o <<" = ">> \o name \o <<" + ", "?">>,
                      values |-> <<IntV(args[1].n)>>]
                ELSE [cql |-> name \o <<" = ">> \o name \o <<" - ", "?">>,
                      values |-> <<IntV(-args[1].n)>>]

\* Modifier.cql; p is the iteration order of a map argument
ModifierCQL(m, name, p) ==
    LET op == m.s[1]
        args == m.l
    IN  CASE op = "ModifierListPrepend" ->
                [cql |-> name \o <<" = ", "?", " + ">> \o name,
                 values |-> <<ListV(<<args[1]>>)>>]
          [] op = "ModifierListAppend" ->
                [cql |-> name \o <<" = ">> \o name \o <<" + ", "?">>,
                 values |-> <<ListV(<<args[1]>>)>>]
          [] op = "ModifierListSetAtIndex" ->
                [cql |-> name \o <<"[", "?", "] = ", "?">>,
                 values |-> <<args[1], args[2]>>]
          [] op = "ModifierListRemove" ->
                [cql |-> name \o <<" = ">> \o name \o <<" - ", "?">>,
                 values |-> <<ListV(<<args[1]>>)>>]
          [] op = "ModifierMapSetFields" ->
                LET fields == args[1].l
                    visit == RangeOrder(Len(fields) \div 2, p)
                IN  [cql |-> Join([i \in 1..Len(visit) |->
                                       name \o <<"[", "?", "] = ", "?">>], <<", ">>),
                     values |-> Concat([i \in 1..Len(visit) |->
                                       <<fields[2 * visit[i] - 1], fields[2 * visit[i]]>>])]
          [] op = "ModifierMapSetField" ->
                [cql |-> name \o <<"[", "?", "] = ", "?">>,
                 values |-> <<args[1], args[2]>>]
          [] op = "ModifierCounterIncrement" ->
                IF args[1].n > 0
                THEN [cql |-> name \o <<" = ">> \o name \o <<" + ", "?">>,
                      values |-> <<IntV(args[1].n)>>]
                ELSE [cql |-> name \o <<" = ">> \o name \o <<" - ", "?">>,
                      values |-> <<IntV(-args[1].n)>>]

-----------------------------------------------------------------------------
(* Keys and clustering order *)

Keys(pk, cc) == [PartitionKeys |-> pk, ClusteringColumns |-> cc]

\* Direction.String
DirectionString(d) == IF d = "DESC" THEN <<"DESC">> ELSE <<"ASC">>

isClusteringKeyField_caseSensitive(field, keys) ==
    \E i \in 1..Len(keys.ClusteringColumns) : keys.ClusteringColumns[i] = field

isClusteringKeyField_anyKey(field, keys) ==
    \E i \in 1..Len(keys.PartitionKeys \o keys.ClusteringColumns) :
        ToLower((keys.PartitionKeys \o keys.ClusteringColumns)[i]) = ToLower(field)

isClusteringKeyField(field, keys) ==
    \E i \in 1..Len(keys.ClusteringColumns) :
        ToLower(keys.ClusteringColumns[i]) = ToLower(field)

-----------------------------------------------------------------------------
(* CQL generation: statement.go *)

generateTupleCQLBind_oneMore(rel) ==
    <<"(">> \o Concat([i \in 1..Len(rel.terms) |-> <<"?", ",">>]) \o <<"?", ")">>

generateTupleCQLBind(rel) ==
    <<"(">>
    \o Concat([i \in 1..(IF Len(rel.terms) > 0 THEN Len(rel.terms) - 1 ELSE 0) |->
                   <<"?", ",">>])
    \o <<"?", ")">>

generateRelationCQL(rel, keys, clusteringSentinelsEnabled) ==
    LET field == ToLower(rel.field)
    IN  CASE rel.cmp = "CmpEquality" ->
                IF isClusteringKeyField(rel.field, keys) /\ clusteringSentinelsEnabled
                THEN [cql |-> field \o <<" = ", "?">>,
                      values |-> <<ClusteringFieldOrSentinel(rel.terms[1])>>]
                ELSE [cql |-> field \o <<" = ", "?">>, values |-> <<rel.terms[1]>>]
          [] rel.cmp = "CmpIn" ->
                [cql |-> field \o <<" IN ", "?">>, values |-> <<ListV(rel.terms)>>]
          [] rel.cmp = "CmpGreaterThan" ->
                [cql |-> field \o <<" > ", "?">>, values |-> <<rel.terms[1]>>]
          [] rel.cmp = "CmpGreaterThanOrEquals" ->
                [cql |-> field \o <<" >= ", "?">>, values |-> <<rel.terms[1]>>]
          [] rel.cmp = "CmpLesserThan" ->
                [cql |-> field \o <<" < ", "?">>, values |-> <<rel.terms[1]>>]
          [] rel.cmp = "CmpLesserThanOrEquals" ->
                [cql |-> field \o <<" <= ", "?">>, values |-> <<rel.terms[1]>>]
          [] rel.cmp = "CmpTupleEquality" ->
                [cql |-> field \o <<" = ">> \o generateTupleCQLBind(rel),
                 values |-> rel.terms]
          [] rel.cmp = "CmpTupleGreaterThan" ->
                [cql |-> field \o <<" > ">> \o generateTupleCQLBind(rel),
                 values |-> rel.terms]
          [] rel.cmp = "CmpTupleGreaterThanOrEquals" ->
                [cql |-> field \o <<" >= ">> \o generateTupleCQLBind(rel),
                 values |-> rel.terms]
          [] rel.cmp = "CmpTupleLesserThan" ->
                [cql |-> field \o <<" < ">> \o generateTupleCQLBind(rel),
                 values |-> rel.terms]
          [] rel.cmp = "CmpTupleLesserThanOrEquals" ->
                [cql |-> field \o <<" <= ">> \o generateTupleCQLBind(rel),
                 values |-> rel.terms]

generateWhereCQL_commaJoined(rs, keys, clusteringSentinelsEnabled) ==
    LET each == [i \in 1..Len(rs) |->
                    generateRelationCQL(rs[i], keys, clusteringSentinelsEnabled)]
    IN  [cql |-> Join([i \in 1..Len(rs) |-> each[i].cql], <<", ">>),
         values |-> Concat([i \in 1..Len(rs) |-> each[i].values])]

generateWhereCQL(rs, keys, clusteringSentinelsEnabled) ==
    LET each == [i \in 1..Len(rs) |->
                    generateRelationCQL(rs[i], keys, clusteringSentinelsEnabled)]
    IN  [cql |-> Join([i \in 1..Len(rs) |-> each[i].cql], <<" AND ">>),
         values |-> Concat([i \in 1..Len(rs) |-> each[i].values])]

generateOrderByCQL(order) ==
    Join([i \in 1..Len(order) |->
             order[i].Column \o <<" ">> \o DirectionString(order[i].Direction)],
         <<", ">>)

RECURSIVE Reverse(_)
Reverse(s) == IF Len(s) = 0 THEN <<>> ELSE Reverse(Tail(s)) \o <<Head(s)>>

sortedKeys_descending(fm) == Reverse(SortStrings(DOMAIN fm))

\* sortedKeys: the keys of the map in sort.Strings order
sortedKeys(fm) == SortStrings(DOMAIN fm)

generateUpdateSetCQL(fm, p) ==
    LET names == sortedKeys(fm)
        each == [i \in 1..Len(names) |->
                    IF fm[names[i]].kind = "modifier"
                    THEN ModifierCQL(fm[names[i]], names[i], p)
                    ELSE [cql |-> names[i] \o <<" = ", "?">>,
                          values |-> <<fm[names[i]]>>]]
    IN  [cql |-> Join([i \in 1..Len(names) |-> each[i].cql], <<", ">>),
         values |-> Concat([i \in 1..Len(names) |-> each[i].values])]

-----------------------------------------------------------------------------
(* Statements: statement.go.  One record shape for the four statement      *)
(* types; typ names the Go type, the fields a type does not have keep      *)
(* their zero value.  A time.Duration is a whole number of milliseconds.   *)

Statement(typ) ==
    [typ |-> typ, keyspace |-> <<>>, table |-> <<>>, fields |-> <<>>,
     fieldMap |-> <<>>, where |-> <<>>, order |-> <<>>, limit |-> 0,
     allowFiltering |-> FALSE, ttl |-> 0, keys |-> Keys(<<>>, <<>>),
     clusteringSentinelsEnabled |-> FALSE]

NoStatement == Statement("none")

Result(s, e) == [stmt |-> s, err |-> e]

NewSelectStatement(keyspace, table, fields, rel, keys) ==
    IF keyspace = <<>> \/ table = <<>> THEN Result(Statement("select"), TRUE)
    ELSE IF Len(fields) < 1 THEN Result(Statement("select"), TRUE)
    ELSE IF Len(keys.PartitionKeys) = 0 THEN Result(Statement("select"), TRUE)
    ELSE Result([Statement("select") EXCEPT !.keyspace = keyspace, !.table = table,
                     !.fields = fields, !.where = rel, !.keys = keys], FALSE)

NewInsertStatement(keyspace, table, fieldMap, keys) ==
    IF keyspace = <<>> \/ table = <<>> THEN Result(Statement("insert"), TRUE)
    ELSE IF Cardinality(DOMAIN fieldMap) < 1 THEN Result(Statement("insert"), TRUE)
    ELSE IF Len(keys.PartitionKeys) = 0 THEN Result(Statement("insert"), TRUE)
    ELSE Result([Statement("insert") EXCEPT !.keyspace = keyspace, !.table = table,
                     !.fieldMap = fieldMap, !.keys = keys], FALSE)

NewUpdateStatement(keyspace, table, fieldMap, rel, keys) ==
    IF keyspace = <<>> \/ table = <<>> THEN Result(Statement("update"), TRUE)
    ELSE IF Cardinality(DOMAIN fieldMap) < 1 THEN Result(Statement("update"), TRUE)
    ELSE IF Len(rel) < 1 THEN Result(Statement("update"), TRUE)
    ELSE IF Len(keys.PartitionKeys) = 0 THEN Result(Statement("update"), TRUE)
    ELSE Result([Statement("update") EXCEPT !.keyspace = keyspace, !.table = table,
                     !.fieldMap = fieldMap, !.where = rel, !.keys = keys], FALSE)

NewDeleteStatement_noRelCheck(keyspace, table, rel, keys) ==
    IF keyspace = <<>> \/ table = <<>> THEN Result(Statement("delete"), TRUE)
    ELSE IF Len(keys.PartitionKeys) = 0 THEN Result(Statement("delete"), TRUE)
    ELSE Result([Statement("delete") EXCEPT !.keyspace = keyspace, !.table = table,
                     !.where = rel, !.keys = keys], FALSE)

NewDeleteStatement(keyspace, table, rel, keys) ==
    IF keyspace = <<>> \/ table = <<>> THEN Result(Statement("delete"), TRUE)
    ELSE IF Len(rel) < 1 THEN Result(Statement("delete"), TRUE)
    ELSE IF Len(keys.PartitionKeys) = 0 THEN Result(Statement("delete"), TRUE)
    ELSE Result([Statement("delete") EXCEPT !.keyspace = keyspace, !.table = table,
                     !.where = rel, !.keys = keys], FALSE)

\* the readers of a statement
Keyspace(s) == s.keyspace
Table(s) == s.table
Fields(s) == s.fields
FieldMap(s) == s.fieldMap
Relations(s) == s.where
OrderBy(s) == s.order
AllowFiltering(s) == s.allowFiltering
StatementKeys(s) == s.keys

\* SelectStatement.Limit
Limit(s) == IF s.limit < 1 THEN 0 ELSE s.limit

\* InsertStatement.TTL, UpdateStatement.TTL
TTL(s) == IF s.ttl < 1 THEN 0 ELSE s.ttl

\* int(s.TTL().Seconds())
TTLSeconds(s) == TTL(s) \div 1000

WithRelations(s, rel) == [s EXCEPT !.where = rel]

WithOrderBy(s, order) == [s EXCEPT !.order = order]

WithLimit(s, limit) == [s EXCEPT !.limit = IF limit < 1 THEN 0 ELSE limit]

WithAllowFiltering(s, enabled) == [s EXCEPT !.allowFiltering = enabled]

WithTTL(s, ttl) == [s EXCEPT !.ttl = IF ttl < 1 THEN 0 ELSE ttl]

WithClusteringSentinel(s, enabled) == [s EXCEPT !.clusteringSentinelsEnabled = enabled]

Rendered(query, values) == [ok |-> TRUE, query |-> query, values |-> values]

NoOutput == [ok |-> FALSE, query |-> <<>>, values |-> <<>>]

SelectQueryAndValues(s) ==
    LET w == generateWhereCQL(Relations(s), StatementKeys(s), s.clusteringSentinelsEnabled)
        orderByCQL == generateOrderByCQL(OrderBy(s))
        query == <<<<"SELECT">>, Join(s.fields, <<", ">>),
                   <<"FROM ">> \o Keyspace(s) \o <<".">> \o Table(s)>>
                 \o (IF w.cql # <<>> THEN <<<<"WHERE">>, w.cql>> ELSE <<>>)
                 \o (IF orderByCQL # <<>> THEN <<<<"ORDER BY">>, orderByCQL>> ELSE <<>>)
                 \o (IF Limit(s) > 0 THEN <<<<"LIMIT ", "?">>>> ELSE <<>>)
                 \o (IF AllowFiltering(s) THEN <<<<"ALLOW FILTERING">>>> ELSE <<>>)
        values == (IF w.cql # <<>> THEN w.values ELSE <<>>)
                  \o (IF Limit(s) > 0 THEN <<IntV(s.limit)>> ELSE <<>>)
    IN  Rendered(Join(query, <<" ">>), values)

InsertQueryAndValues(s) ==
    LET names == sortedKeys(FieldMap(s))
        fieldNames == [i \in 1..Len(names) |-> ToLower(names[i])]
        placeholders == [i \in 1..Len(names) |-> <<"?">>]
        fieldValues == [i \in 1..Len(names) |->
                          IF isClusteringKeyField(names[i], s.keys)
                             /\ s.clusteringSentinelsEnabled
                          THEN ClusteringFieldOrSentinel(FieldMap(s)[names[i]])
                          ELSE FieldMap(s)[names[i]]]
        query == <<<<"INSERT INTO">>, Keyspace(s) \o <<".">> \o Table(s),
                   <<"(">> \o Join(fieldNames, <<", ">>) \o <<")">>,
                   <<"VALUES (">> \o Join(placeholders, <<", ">>) \o <<")">>>>
                 \o (IF TTL(s) > 0 THEN <<<<"USING TTL ", "?">>>> ELSE <<>>)
        values == fieldValues \o (IF TTL(s) > 0 THEN <<IntV(TTLSeconds(s))>> ELSE <<>>)
    IN  Rendered(Join(query, <<" ">>), values)

UpdateQueryAndValues_ttlLast(s, p) ==
    LET set == generateUpdateSetCQL(FieldMap(s), p)
        w == generateWhereCQL(Relations(s), StatementKeys(s), s.clusteringSentinelsEnabled)
        query == <<<<"UPDATE">>, Keyspace(s) \o <<".">> \o Table(s)>>
                 \o (IF TTL(s) > 0 THEN <<<<"USING TTL ", "?">>>> ELSE <<>>)
                 \o <<<<"SET">>, set.cql>>
                 \o (IF w.cql # <<>> THEN <<<<"WHERE">>, w.cql>> ELSE <<>>)
        values == set.values
                  \o (IF w.cql # <<>> THEN w.values ELSE <<>>)
                  \o (IF TTL(s) > 0 THEN <<IntV(TTLSeconds(s))>> ELSE <<>>)
    IN  Rendered(Join(query, <<" ">>), values)

UpdateQueryAndValues(s, p) ==
    LET set == generateUpdateSetCQL(FieldMap(s), p)
        w == generateWhereCQL(Relations(s), StatementKeys(s), s.clusteringSentinelsEnabled)
        query == <<<<"UPDATE">>, Keyspace(s) \o <<".">> \o Table(s)>>
                 \o (IF TTL(s) > 0 THEN <<<<"USING TTL ", "?">>>> ELSE <<>>)
                 \o <<<<"SET">>, set.cql>>
                 \o (IF w.cql # <<>> THEN <<<<"WHERE">>, w.cql>> ELSE <<>>)
        values == (IF TTL(s) > 0 THEN <<IntV(TTLSeconds(s))>> ELSE <<>>)
                  \o set.values
                  \o (IF w.cql # <<>> THEN w.values ELSE <<>>)
    IN  Rendered(Join(query, <<" ">>), values)

DeleteQueryAndValues(s) ==
    LET w == generateWhereCQL(Relations(s), StatementKeys(s), s.clusteringSentinelsEnabled)
    IN  Rendered(<<"DELETE FROM ">> \o Keyspace(s) \o <<".">> \o Table(s)
                 \o (IF w.cql # <<>> THEN <<" WHERE ">> \o w.cql ELSE <<>>),
                 w.values)

-----------------------------------------------------------------------------
(* The arguments the calls are made with *)

Min(a, b) == IF a < b THEN a ELSE b

Prefixes(seq, lo, hi) == {SubSeq(seq, 1, n) : n \in lo..Min(hi, Len(seq))}

KeyspaceTables ==
    {<<<<"k", "s", "1">>, <<"t", "b", "l", "1">>>>,
     <<<<>>, <<"t", "b", "l", "1">>>>,
     <<<<"k", "s", "1">>, <<>>>>}

\* "B" sorts before "a" and "aB" as bytes; lower-cased, "b" sorts last
FieldNames == {<<"a">>, <<"B">>, <<"a", "B">>}

FieldLists == {<<>>, <<<<"c">>>>, <<<<"c">>, <<"B">>, <<"a">>>>}

KeySamples ==
    {Keys(<<>>, <<>>), Keys(<<<<"a">>>>, <<>>), Keys(<<<<"a">>>>, <<<<"b">>>>)}

\* the empty and a non-empty value of the types a column is bound to
PlainValues ==
    {StrV(<<>>), StrV(<<"x">>), BytesV(<<>>), ZeroTime, IntV(0), NamedStrV(<<>>)}

InTerms == Prefixes(<<StrV(<<>>), StrV(<<"x">>), StrV(<<"y">>), StrV(<<"z">>)>>, 0, MaxTerms)

TupleTerms == Prefixes(<<StrV(<<>>), IntV(1), IntV(2), IntV(3)>>, 1, MaxTerms)

RelationSamples ==
    {Eq(<<"B">>, v) : v \in PlainValues}
    \cup {Eq(<<"a">>, StrV(<<>>)), Eq(<<"a">>, StrV(<<"x">>))}
    \cup {In(<<"B">>, ts) : ts \in InTerms}
    \cup {GT(<<"c">>, IntV(1)), GTE(<<"B">>, StrV(<<>>)),
          LT(<<"B">>, StrV(<<>>)), LTE(<<"c">>, IntV(1))}
    \cup {TupleRel(c, <<"B">>, ts) : c \in TupleComparators, ts \in TupleTerms}

\* the relations an UPDATE is made with
UpdateRelations ==
    {Eq(<<"B">>, StrV(<<>>)), Eq(<<"B">>, ZeroTime),
     In(<<"B">>, <<StrV(<<>>), StrV(<<"x">>)>>)}

\* the relations that come before the last one of a WHERE clause
LeadingRelations ==
    <<In(<<"a">>, <<StrV(<<"x">>), StrV(<<"y">>)>>), Eq(<<"B">>, StrV(<<>>)),
      GT(<<"c">>, IntV(1))>>

\* the lists of up to MaxRels relations that end with a relation of rs
RelListsOver(rs) ==
    {<<>>} \cup {SubSeq(LeadingRelations, 1, n) \o <<r>> :
                    n \in 0..Min(MaxRels - 1, Len(LeadingRelations)), r \in rs}

RelLists == RelListsOver(RelationSamples)

UpdateRelLists == RelListsOver(UpdateRelations)

OrderLists ==
    {<<>>, <<[Column |-> <<"a">>, Direction |-> "ASC"],
             [Column |-> <<"B">>, Direction |-> "DESC"]>>}

Limits == {-1, 0, 10}

\* every map from up to MaxFields of the names to the values
FieldMapsOver(names, values) ==
    UNION {[D -> values] : D \in {E \in SUBSET names : Cardinality(E) <= MaxFields}}

InsertFieldMaps == FieldMapsOver(FieldNames, PlainValues)

MapArguments ==
    {<<>>, <<StrV(<<"k">>), StrV(<<"v">>)>>,
     <<StrV(<<"k">>), StrV(<<"v">>), StrV(<<"l">>), IntV(7)>>}

Modifiers ==
    {ListPrepend(StrV(<<"d">>)), ListAppend(StrV(<<"d">>)), ListRemove(StrV(<<"d">>)),
     ListSetAtIndex(1, StrV(<<"d">>)), MapSetField(StrV(<<"k">>), StrV(<<"v">>))}
    \cup {MapSetFields(m) : m \in MapArguments}
    \cup {CounterIncrement(n) : n \in {-2, 0, 2}}

\* an UPDATE of one column takes any value; of more columns, a value of two kinds
UpdateFieldMaps ==
    FieldMapsOver(FieldNames, {StrV(<<>>), MapSetField(StrV(<<"k">>), StrV(<<"v">>))})
    \cup {[D \in {f} |-> v] : f \in FieldNames, v \in PlainValues \cup Modifiers}

\* the orders in which a map of up to two entries is ranged over
RangeOrders == {<<1, 2>>, <<2, 1>>}

\* durations in milliseconds: negative, none, under a second, an hour
Durations == {-1000, 0, 500, 3600000}

Strings(atoms, n) == UNION {[1..k -> atoms] : k \in 0..n}

\* the terms given to the sentinel functions
Terms ==
    LET texts == Strings({"x", ClusteringSentinel[1]}, MaxStrLen)
        his == {ZeroTime.n, ClusteringSentinelTimestamp.n, 0}
        los == {ZeroTime.m, ClusteringSentinelTimestamp.m, 0}
    IN  {StrV(s) : s \in texts} \cup {NamedStrV(s) : s \in texts}
        \cup {BytesV(s) : s \in texts} \cup {NamedBytesV(s) : s \in texts}
        \cup {NilBytes, IntV(0), IntV(42), StructV, NilV}
        \cup {TimeV(h, l) : h \in his, l \in los}
        \cup {NamedTimeV(h, l) : h \in his, l \in los}

-----------------------------------------------------------------------------
(* State: the statement in hand, the constructor call that made it and its  *)
(* error, the last (CQL, values) rendered from it, and the last call of a   *)
(* sentinel function.                                                      *)

Call(fn, keyspace, table, fields, fieldMap, rel, keys) ==
    [fn |-> fn, keyspace |-> keyspace, table |-> table, fields |-> fields,
     fieldMap |-> fieldMap, rel |-> rel, keys |-> keys]

NoCall == Call("none", <<>>, <<>>, <<>>, <<>>, <<>>, Keys(<<>>, <<>>))

IO(fn, arg, is, ret, chained, orig) ==
    [fn |-> fn, arg |-> arg, is |-> is, ret |-> ret, chained |-> chained, orig |-> orig]

NoIO == IO("none", NilV, FALSE, NilV, FALSE, NilV)

(* Shared memory.  A Go map is a reference to its entries and a slice is a  *)
(* pointer into a backing array with a length: assigning either to a field  *)
(* of a statement copies the reference, not the entries.  heap holds the    *)
(* maps and backing arrays by address, held the statements built over them  *)
(* with a reference in each collection field, seen what each rendered when  *)
(* it was first rendered.                                                   *)

Object(kind, data) == [kind |-> kind, data |-> data]

Slice(ptr, len) == [ptr |-> ptr, len |-> len]

NilSlice == Slice(0, 0)

\* the collections the caller has made: a field map, a field list, two
\* relation lists and an order list
CallerObjects ==
    <<Object("map", [f \in {<<"a">>} |-> StrV(<<"x">>)]),
      Object("fields", <<<<"c">>, <<"B">>>>),
      Object("rels", <<Eq(<<"a">>, StrV(<<"x">>))>>),
      Object("rels", <<Eq(<<"B">>, StrV(<<>>)), GT(<<"c">>, IntV(1))>>),
      Object("order", <<[Column |-> <<"a">>, Direction |-> "ASC"]>>)>>

Heap(cells, writes) == [cells |-> cells, writes |-> writes]

(* Scanner.  The result target is a value of a type with depth pointer      *)
(* levels over a base kind; nilAt is the level of the pointer that is nil   *)
(* (1 the outermost, 0 when none is) and val the value at the base: a       *)
(* record is held as the one row bound to it, a slice as the rows appended  *)
(* to it.                                                                   *)

Value(isnil, rows) == [isnil |-> isnil, rows |-> rows]

NoValue == Value(TRUE, <<>>)

Target(depth, base, nilAt, val) ==
    [depth |-> depth, base |-> base, nilAt |-> nilAt, val |-> val]

\* interface{}(nil): no type, no value
UntypedNil == Target(0, "nil", 0, NoValue)

\* the iterator: the rows it yields, the row whose Scan fails (0: none), the
\* error Err() reports once Next has returned false, and the cursor
Iter(rows, failAt, e, pos) == [rows |-> rows, failAt |-> failAt, err |-> e, pos |-> pos]

NoIter == Iter(<<>>, 0, "nil", 0)

\* what ScanIter returns, or that it panicked
Return(n, e, panicked) == [n |-> n, err |-> e, panicked |-> panicked, called |-> TRUE]

NoReturn == [n |-> 0, err |-> "nil", panicked |-> FALSE, called |-> FALSE]

(* Binding a row: part_000.  The record type the cells are bound to is     *)
(*   type T struct { *Inner; Box; Name string; Label NamedString;          *)
(*                   Raw []byte; Blob NamedBytes; At time.Time;            *)
(*                   Tags []string; Attrs map[string]string }              *)
(*   type Inner struct { Mid string }    type Deep struct { Note string }  *)
(*   type Box struct { *Deep; Pad string }                                 *)
(* A value of T is the state of its two embedded pointers, by their index  *)
(* paths, and the value of each of its flattened fields; a field below a   *)
(* nil pointer keeps the zero value.                                       *)

\* r.Field: Index() and Type().  The fields of the map are exported and the
\* record is reached through a pointer, so CanSet holds of every one of them.
Field(index, typ) == [index |-> index, typ |-> typ]

\* the map r.StructFieldMap(T, true) returns: lowercased name to field
StructFields ==
    <<"m", "i", "d">> :> Field(<<1, 1>>, "string")
    @@ <<"n", "o", "t", "e">> :> Field(<<2, 1, 1>>, "string")
    @@ <<"p", "a", "d">> :> Field(<<2, 2>>, "string")
    @@ <<"n", "a", "m", "e">> :> Field(<<3>>, "string")
    @@ <<"l", "a", "b", "e", "l">> :> Field(<<4>>, "namedstring")
    @@ <<"r", "a", "w">> :> Field(<<5>>, "bytes")
    @@ <<"b", "l", "o", "b">> :> Field(<<6>>, "namedbytes")
    @@ <<"a", "t">> :> Field(<<7>>, "time")
    @@ <<"t", "a", "g", "s">> :> Field(<<8>>, "list")
    @@ <<"a", "t", "t", "r", "s">> :> Field(<<9>>, "map")

\* the index paths of the embedded pointers of T: *Inner and Box.*Deep
EmbeddedPointers == {<<1>>, <<2, 1>>}

\* reflect.Zero of a field type: nil for a slice or a map
reflectZero(typ) ==
    IF typ = "time" THEN ZeroTime
    ELSE Val(typ, <<>>, 0, 0, typ \in {"bytes", "namedbytes", "list", "map"}, <<>>)

\* reflect.MakeSlice(t, 0, 0) and reflect.MakeMap(t)
reflectMake(typ) == Val(typ, <<>>, 0, 0, FALSE, <<>>)

\* reflect.Value.Kind of a value of a field type
reflectKind(typ) ==
    CASE typ \in {"string", "namedstring"} -> "String"
      [] typ \in {"bytes", "namedbytes", "list"} -> "Slice"
      [] typ = "map" -> "Map"
      [] OTHER -> "Struct"

StructValue(ptrs, cells) == [ptrs |-> ptrs, cells |-> cells]

\* reflect.New(T).Elem(): nil pointers, zero fields
ZeroStruct ==
    StructValue([p \in EmbeddedPointers |-> FALSE],
                [f \in DOMAIN StructFields |-> reflectZero(StructFields[f].typ)])

\* the iterator over cells: the kind of the cells of each row (null, the
\* clustering sentinel of the column's type, or data), the error Err()
\* reports and whether Scan fails
CellIter(rows, e, scanFails) == [rows |-> rows, err |-> e, scanFails |-> scanFails]

\* what a scan leaves: the function that ran and its iterator, the record as
\* it was before, the bind targets, whether a row was bound, the elements
\* appended to a slice, the count and the error returned, or that the scan
\* panicked
Binding(fn, it, before, ptrs, rowBound, elems, n, e, panicked) ==
    [called |-> TRUE, fn |-> fn, it |-> it, before |-> before, ptrs |-> ptrs,
     rowBound |-> rowBound, elems |-> elems, n |-> n, err |-> e, panicked |-> panicked]

NoBinding ==
    [called |-> FALSE, fn |-> "none", it |-> CellIter(<<>>, "nil", FALSE),
     before |-> ZeroStruct, ptrs |-> <<>>, rowBound |-> FALSE, elems |-> <<>>,
     n |-> 0, err |-> "nil", panicked |-> FALSE]

(* Mock row store: the tests of part_001.  A table is its keys and the     *)
(* direction of each clustering column; the rows of a table are held per   *)
(* partition, as the list the clustering order keeps them in.              *)

MockTable(keys, order) == [keys |-> keys, order |-> order]

NoTable == MockTable(Keys(<<>>, <<>>), <<>>)

\* a row of the users tables: Pk1, Pk2, Ck1, Ck2 and Name
User(pk1, pk2, ck1, ck2, name) ==
    <<"Pk1">> :> pk1 @@ <<"Pk2">> :> pk2 @@ <<"Ck1">> :> ck1 @@ <<"Ck2">> :> ck2
    @@ <<"Name">> :> name

\* the operations of the mock: Set of a row, Update of the Name of the rows
\* of a WHERE, Delete and Read of the rows of a WHERE
MockOp(kind, row, where, name) == [kind |-> kind, row |-> row, where |-> where, name |-> name]

NoRow == User(NilV, NilV, NilV, NilV, NilV)

\* the error injectors of a context: the operation FailOnNthOperation fails
\* (1-based), the index FailOnEachOperation fails next (0-based), and what
\* LastErrorInjectedAtIdx and ShouldContinue report
ErrorInjector(kind, n, opIdxToFail, lastErrorInjectedAtIdx, shouldContinue) ==
    [kind |-> kind, n |-> n, opIdxToFail |-> opIdxToFail,
     lastErrorInjectedAtIdx |-> lastErrorInjectedAtIdx, shouldContinue |-> shouldContinue]

NeverFail == ErrorInjector("NeverFail", 0, 0, -1, FALSE)

FailOnNthOperation(n) == ErrorInjector("FailOnNthOperation", n, 0, -1, FALSE)

FailOnEachOperation == ErrorInjector("FailOnEachOperation", 0, 0, -1, FALSE)

\* what the last operation or run left: the operation, its error, the rows a
\* read returned, the operations a run executed and the number of the run
Done(op, e, rows, executed, runs) ==
    [op |-> op, err |-> e, rows |-> rows, executed |-> executed, runs |-> runs]

NotDone == Done(MockOp("none", NoRow, <<>>, NilV), "nil", <<>>, 0, 0)

(* Relation evaluation: what accept answers, or that it panicked *)

Answer(res, panicked) == [result |-> res, panicked |-> panicked, called |-> TRUE]

NoAnswer == [result |-> FALSE, panicked |-> FALSE, called |-> FALSE]

Init ==
    /\ stmt = NoStatement
    /\ call = NoCall
    /\ err = FALSE
    /\ out = NoOutput
    /\ io = NoIO
    /\ heap = Heap(CallerObjects, 0)
    /\ held = <<>>
    /\ seen = <<>>
    /\ result = UntypedNil
    /\ iter = NoIter
    /\ returned = NoReturn
    /\ rowsScanned = 0
    /\ relation = Eq(<<>>, NilV)
    /\ cell = NilV
    /\ accepted = NoAnswer
    /\ selected = <<>>
    /\ outVal = ZeroStruct
    /\ scanned = NoBinding
    /\ mockTable = NoTable
    /\ mockRows = <<>>
    /\ mockOps = <<>>
    /\ errorInjector = NeverFail
    /\ mockDone = NotDone

\* a statement is built fresh: each behaviour follows one statement from its
\* constructor through the With... calls to its renderings
Constructed(c, r) ==
    /\ call' = c
    /\ stmt' = r.stmt
    /\ err' = r.err
    /\ out' = NoOutput
    /\ UNCHANGED <<io, shareVars, scanVars, acceptVars, bindVars, mockVars>>

CallNewSelectStatement ==
    /\ stmt = NoStatement
    /\ \E kt \in KeyspaceTables, fields \in FieldLists, rel \in RelLists, keys \in KeySamples :
           Constructed(Call("NewSelectStatement", kt[1], kt[2], fields, <<>>, rel, keys),
                       NewSelectStatement(kt[1], kt[2], fields, rel, keys))

CallNewInsertStatement ==
    /\ stmt = NoStatement
    /\ \E kt \in KeyspaceTables, fieldMap \in InsertFieldMaps, keys \in KeySamples :
           Constructed(Call("NewInsertStatement", kt[1], kt[2], <<>>, fieldMap, <<>>, keys),
                       NewInsertStatement(kt[1], kt[2], fieldMap, keys))

CallNewUpdateStatement ==
    /\ stmt = NoStatement
    /\ \E kt \in KeyspaceTables, fieldMap \in UpdateFieldMaps, rel \in UpdateRelLists,
          keys \in KeySamples :
           Constructed(Call("NewUpdateStatement", kt[1], kt[2], <<>>, fieldMap, rel, keys),
                       NewUpdateStatement(kt[1], kt[2], fieldMap, rel, keys))

CallNewDeleteStatement ==
    /\ stmt = NoStatement
    /\ \E kt \in KeyspaceTables, rel \in RelLists, keys \in KeySamples :
           Constructed(Call("NewDeleteStatement", kt[1], kt[2], <<>>, <<>>, rel, keys),
                       NewDeleteStatement(kt[1], kt[2], rel, keys))

\* the statement a constructor returned without error
Have(types) == stmt.typ \in types /\ ~err

Derived(s) ==
    /\ stmt' = s
    /\ call' = NoCall
    /\ out' = NoOutput
    /\ UNCHANGED <<err, io, shareVars, scanVars, acceptVars, bindVars, mockVars>>

CallWithRelations ==
    /\ Have({"select"})
    /\ \E rel \in RelLists : Derived(WithRelations(stmt, rel))

CallWithOrderBy ==
    /\ Have({"select"})
    /\ \E order \in OrderLists : Derived(WithOrderBy(stmt, order))

CallWithLimit ==
    /\ Have({"select"})
    /\ \E limit \in Limits : Derived(WithLimit(stmt, limit))

CallWithAllowFiltering ==
    /\ Have({"select"})
    /\ \E enabled \in BOOLEAN : Derived(WithAllowFiltering(stmt, enabled))

CallWithTTL ==
    /\ Have({"insert", "update"})
    /\ \E ttl \in Durations : Derived(WithTTL(stmt, ttl))

CallWithClusteringSentinel ==
    /\ Have({"select", "insert", "update", "delete"})
    /\ \E enabled \in BOOLEAN : Derived(WithClusteringSentinel(stmt, enabled))

Returned(o) ==
    /\ out' = o
    /\ UNCHANGED <<stmt, call, err, io, shareVars, scanVars, acceptVars, bindVars, mockVars>>

CallSelectQueryAndValues ==
    Have({"select"}) /\ Returned(SelectQueryAndValues(stmt))

CallInsertQueryAndValues ==
    Have({"insert"}) /\ Returned(InsertQueryAndValues(stmt))

CallUpdateQueryAndValues ==
    /\ Have({"update"})
    /\ \E p \in RangeOrders : Returned(UpdateQueryAndValues(stmt, p))

CallDeleteQueryAndValues ==
    Have({"delete"}) /\ Returned(DeleteQueryAndValues(stmt))

Next ==
    \/ CallNewSelectStatement
    \/ CallNewInsertStatement
    \/ CallNewUpdateStatement
    \/ CallNewDeleteStatement
    \/ CallWithRelations
    \/ CallWithOrderBy
    \/ CallWithLimit
    \/ CallWithAllowFiltering
    \/ CallWithTTL
    \/ CallWithClusteringSentinel
    \/ CallSelectQueryAndValues
    \/ CallInsertQueryAndValues
    \/ CallUpdateQueryAndValues
    \/ CallDeleteQueryAndValues

Spec == Init /\ [][Next]_vars

(* The sentinel functions on their own *)

CallClusteringFieldOrSentinel ==
    \E term \in Terms :
        /\ io' = IO("ClusteringFieldOrSentinel", term, FALSE,
                    ClusteringFieldOrSentinel(term), FALSE, term)
        /\ UNCHANGED <<stmt, call, err, out, shareVars, scanVars, acceptVars, bindVars, mockVars>>

CallIsClusteringSentinelValue ==
    \E term \in Terms :
        /\ io' = IO("IsClusteringSentinelValue", term,
                    IsClusteringSentinelValue(term)[1],
                    IsClusteringSentinelValue(term)[2], FALSE, term)
        /\ UNCHANGED <<stmt, call, err, out, shareVars, scanVars, acceptVars, bindVars, mockVars>>

\* the value ClusteringFieldOrSentinel returned, read back
CallIsClusteringSentinelValueOfResult ==
    /\ io.fn = "ClusteringFieldOrSentinel"
    /\ io' = IO("IsClusteringSentinelValue", io.ret,
                IsClusteringSentinelValue(io.ret)[1],
                IsClusteringSentinelValue(io.ret)[2], TRUE, io.arg)
    /\ UNCHANGED <<stmt, call, err, out, shareVars, scanVars, acceptVars, bindVars, mockVars>>

NextSentinel ==
    \/ CallClusteringFieldOrSentinel
    \/ CallIsClusteringSentinelValue
    \/ CallIsClusteringSentinelValueOfResult

SpecSentinel == Init /\ [][NextSentinel]_vars

-----------------------------------------------------------------------------
(* Statements over shared memory *)

\* the addresses of the collections of a kind
Addresses(kind) == {a \in 1..Len(heap.cells) : heap.cells[a].kind = kind}

\* a[:] of the backing array at an address
WholeSlice(a) == Slice(a, Len(heap.cells[a].data))

\* what a slice shows of its backing array, what a map reference refers to
LoadSlice(h, sl) == IF sl.ptr = 0 THEN <<>> ELSE SubSeq(h.cells[sl.ptr].data, 1, sl.len)

LoadMap(h, ptr) == IF ptr = 0 THEN <<>> ELSE h.cells[ptr].data

\* the statement with every reference followed
Deref(h, s) ==
    [s EXCEPT !.fields = LoadSlice(h, s.fields), !.where = LoadSlice(h, s.where),
              !.order = LoadSlice(h, s.order), !.fieldMap = LoadMap(h, s.fieldMap)]

\* the statement a constructor returns, holding the references it was given
Referring(s, fields, fieldMap, where, order) ==
    [s EXCEPT !.fields = fields, !.fieldMap = fieldMap, !.where = where,
              !.order = order]

\* the slices a caller passes: nil or the whole of a backing array
SlicesOf(kind) == {NilSlice} \cup {WholeSlice(a) : a \in Addresses(kind)}

Hold(s) ==
    /\ held' = Append(held, s)
    /\ seen' = Append(seen, NoOutput)
    /\ UNCHANGED <<stmt, call, err, out, io, heap, scanVars, acceptVars, bindVars, mockVars>>

ShareNewSelectStatement ==
    /\ Len(held) < MaxStatements
    /\ \E fields \in SlicesOf("fields"), rel \in SlicesOf("rels") :
           LET r == NewSelectStatement(<<"k", "s", "1">>, <<"t", "b", "l", "1">>,
                                       LoadSlice(heap, fields), LoadSlice(heap, rel),
                                       Keys(<<<<"a">>>>, <<<<"b">>>>))
           IN  /\ ~r.err
               /\ Hold(Referring(r.stmt, fields, 0, rel, NilSlice))

ShareNewInsertStatement ==
    /\ Len(held) < MaxStatements
    /\ \E fieldMap \in Addresses("map") :
           LET r == NewInsertStatement(<<"k", "s", "1">>, <<"t", "b", "l", "1">>,
                                       LoadMap(heap, fieldMap),
                                       Keys(<<<<"a">>>>, <<<<"b">>>>))
           IN  /\ ~r.err
               /\ Hold(Referring(r.stmt, NilSlice, fieldMap, NilSlice, NilSlice))

ShareWithRelations ==
    /\ Len(held) < MaxStatements
    /\ \E i \in 1..Len(held), rel \in SlicesOf("rels") :
           held[i].typ = "select" /\ Hold(WithRelations(held[i], rel))

ShareWithOrderBy ==
    /\ Len(held) < MaxStatements
    /\ \E i \in 1..Len(held), order \in SlicesOf("order") :
           held[i].typ = "select" /\ Hold(WithOrderBy(held[i], order))

ShareWithLimit ==
    /\ Len(held) < MaxStatements
    /\ \E i \in 1..Len(held), limit \in {0, 10} :
           held[i].typ = "select" /\ Hold(WithLimit(held[i], limit))

ShareWithTTL ==
    /\ Len(held) < MaxStatements
    /\ \E i \in 1..Len(held), ttl \in {0, 3600000} :
           held[i].typ = "insert" /\ Hold(WithTTL(held[i], ttl))

\* QueryAndValues of the statement as memory stands
RenderOf(h, s) ==
    IF s.typ = "select" THEN SelectQueryAndValues(Deref(h, s))
    ELSE InsertQueryAndValues(Deref(h, s))

ShareQueryAndValues ==
    \E i \in 1..Len(held) :
        /\ ~seen[i].ok
        /\ seen' = [seen EXCEPT ![i] = RenderOf(heap, held[i])]
        /\ UNCHANGED <<stmt, call, err, out, io, heap, held, scanVars, acceptVars, bindVars, mockVars>>

\* m[k] = v and delete(m, k)
MapSet(m, k, v) == [x \in DOMAIN m \cup {k} |-> IF x = k THEN v ELSE m[x]]

MapDelete(m, k) == [x \in DOMAIN m \ {k} |-> m[x]]

\* the elements a caller writes into a collection of a kind
ElementsOf(kind) ==
    CASE kind = "fields" -> {<<"z">>}
      [] kind = "rels" -> {LT(<<"c">>, IntV(1))}
      [] kind = "order" -> {[Column |-> <<"B">>, Direction |-> "DESC"]}

Written(a, data) ==
    /\ heap' = Heap([heap.cells EXCEPT ![a].data = data], heap.writes + 1)
    /\ UNCHANGED <<stmt, call, err, out, io, held, seen, scanVars, acceptVars, bindVars, mockVars>>

\* the caller writes to the map it passed: m[k] = v
CallerSetsMapEntry ==
    /\ heap.writes < MaxWrites
    /\ \E a \in Addresses("map"), k \in {<<"a">>, <<"B">>}, v \in {StrV(<<"y">>)} :
           Written(a, MapSet(heap.cells[a].data, k, v))

\* the caller deletes from the map it passed: delete(m, k)
CallerDeletesMapEntry ==
    /\ heap.writes < MaxWrites
    /\ \E a \in Addresses("map") : \E k \in DOMAIN heap.cells[a].data :
           Written(a, MapDelete(heap.cells[a].data, k))

\* the caller assigns to an element of the list it passed: l[i] = x
CallerSetsElement ==
    /\ heap.writes < MaxWrites
    /\ \E a \in Addresses("fields") \cup Addresses("rels") \cup Addresses("order") :
           \E i \in 1..Len(heap.cells[a].data), x \in ElementsOf(heap.cells[a].kind) :
               Written(a, [heap.cells[a].data EXCEPT ![i] = x])

\* the caller appends within the capacity of the backing array: the array
\* gets the element, the slices taken before keep their length
CallerAppends ==
    /\ heap.writes < MaxWrites
    /\ \E a \in Addresses("fields") \cup Addresses("rels") \cup Addresses("order") :
           \E x \in ElementsOf(heap.cells[a].kind) :
               Written(a, Append(heap.cells[a].data, x))

\* the map FieldMap() returns is written to
FieldMapResultWritten ==
    /\ heap.writes < MaxWrites
    /\ \E i \in 1..Len(held), k \in {<<"a">>, <<"B">>}, v \in {StrV(<<"y">>)} :
           /\ held[i].typ = "insert"
           /\ Written(FieldMap(held[i]), MapSet(LoadMap(heap, FieldMap(held[i])), k, v))

\* an element of the slice Fields() or Relations() returns is assigned to
SliceResultWritten ==
    /\ heap.writes < MaxWrites
    /\ \E i \in 1..Len(held) : \E sl \in {Fields(held[i]), Relations(held[i])} :
           /\ held[i].typ = "select"
           /\ sl.ptr # 0
           /\ \E j \in 1..sl.len, x \in ElementsOf(heap.cells[sl.ptr].kind) :
                  Written(sl.ptr, [heap.cells[sl.ptr].data EXCEPT ![j] = x])

NextShare ==
    \/ ShareNewSelectStatement
    \/ ShareNewInsertStatement
    \/ ShareWithRelations
    \/ ShareWithOrderBy
    \/ ShareWithLimit
    \/ ShareWithTTL
    \/ ShareQueryAndValues
    \/ CallerSetsMapEntry
    \/ CallerDeletesMapEntry
    \/ CallerSetsElement
    \/ CallerAppends
    \/ FieldMapResultWritten
    \/ SliceResultWritten

SpecShare == Init /\ [][NextShare]_vars

-----------------------------------------------------------------------------
(* Properties of the statement builder *)

\* the number of times an atom occurs in a string
CountOf(q, atom) == Cardinality({i \in 1..Len(q) : q[i] = atom})

\* the statement in hand has been rendered
RenderedAs(typ) == stmt.typ = typ /\ ~err /\ out.ok

\* C1: the CQL that QueryAndValues returns for a SelectStatement, built by
\* NewSelectStatement and any With... calls over relations of every
\* comparator, holds as many '?' placeholders as bind values are returned.
C1_PlaceholdersMatchBinds ==
    RenderedAs("select") => CountOf(out.query, "?") = Len(out.values)

\* an In of two terms, a tuple of two terms and a limit: four placeholders
C1_Witness ==
    /\ RenderedAs("select")
    /\ Limit(stmt) >= 1
    /\ \E i \in 1..Len(stmt.where) :
           stmt.where[i].cmp = "CmpIn" /\ Len(stmt.where[i].terms) = 2
    /\ \E i \in 1..Len(stmt.where) :
           stmt.where[i].cmp \in TupleComparators /\ Len(stmt.where[i].terms) = 2
    /\ Len(out.values) = 4

\* the layout of a SELECT as the parts in their fixed order, each optional
\* part written exactly when it is set
SelectLayout(s) ==
    LET rels == [i \in 1..Len(s.where) |->
                    generateRelationCQL(s.where[i], s.keys, s.clusteringSentinelsEnabled)]
    IN  [query |->
             <<"SELECT", " ">> \o Join(s.fields, <<", ">>)
             \o <<" ", "FROM ">> \o s.keyspace \o <<".">> \o s.table
             \o (IF Len(s.where) >= 1
                 THEN <<" ", "WHERE", " ">>
                      \o Join([i \in 1..Len(rels) |-> rels[i].cql], <<" AND ">>)
                 ELSE <<>>)
             \o (IF Len(s.order) >= 1
                 THEN <<" ", "ORDER BY", " ">> \o generateOrderByCQL(s.order)
                 ELSE <<>>)
             \o (IF s.limit >= 1 THEN <<" ", "LIMIT ", "?">> ELSE <<>>)
             \o (IF s.allowFiltering THEN <<" ", "ALLOW FILTERING">> ELSE <<>>),
         values |->
             Concat([i \in 1..Len(rels) |-> rels[i].values])
             \o (IF s.limit >= 1 THEN <<IntV(s.limit)>> ELSE <<>>)]

\* C2: a SELECT is rendered as SELECT <fields as given> FROM <ks>.<tbl>, then
\* WHERE with the relations in the given order joined by " AND ", ORDER BY,
\* LIMIT ? and ALLOW FILTERING, each present exactly when it is set; the bind
\* values are the WHERE binds in relation order followed by the limit.
C2_SelectLayout ==
    RenderedAs("select") =>
        /\ out.query = SelectLayout(stmt).query
        /\ out.values = SelectLayout(stmt).values

\* a SELECT of three fields with every optional part set
C2_Witness ==
    /\ RenderedAs("select")
    /\ Len(stmt.fields) = 3
    /\ Len(stmt.where) = 2
    /\ Len(stmt.order) = 2
    /\ stmt.limit = 10
    /\ stmt.allowFiltering
    /\ CountOf(out.query, " AND ") = 1
    /\ out.values[Len(out.values)] = IntV(10)

\* the orders in which the names of a set can be written out
Orderings(S) ==
    {q \in [1..Cardinality(S) -> S] : \A x \in S : \E i \in 1..Len(q) : q[i] = x}

\* ascending by the bytes of the names as they were supplied
AscendingAsSupplied(q) == \A i, j \in 1..Len(q) : i < j => StrLess(q[i], q[j])

\* ascending by the lowercased names
AscendingLowercased(q) ==
    \A i, j \in 1..Len(q) : i < j => ~StrLess(ToLower(q[j]), ToLower(q[i]))

\* the rendered INSERT lists the columns q in that order, lowercased, and its
\* i-th bind is the value of the i-th column (or the sentinel standing in for
\* it when sentinels are enabled); a TTL bind, if any, is last
InsertedAs(q) ==
    \E hasTTL \in BOOLEAN :
        /\ out.query =
               <<"INSERT INTO", " ">> \o stmt.keyspace \o <<".">> \o stmt.table
               \o <<" ", "(">> \o Join([i \in 1..Len(q) |-> ToLower(q[i])], <<", ">>)
               \o <<")", " ", "VALUES (">>
               \o Join([i \in 1..Len(q) |-> <<"?">>], <<", ">>) \o <<")">>
               \o (IF hasTTL THEN <<" ", "USING TTL ", "?">> ELSE <<>>)
        /\ Len(out.values) = Len(q) + (IF hasTTL THEN 1 ELSE 0)
        /\ \A i \in 1..Len(q) :
               \/ out.values[i] = stmt.fieldMap[q[i]]
               \/ /\ stmt.clusteringSentinelsEnabled
                  /\ out.values[i] = ClusteringFieldOrSentinel(stmt.fieldMap[q[i]])
        /\ hasTTL => out.values[Len(out.values)].kind = "int"

\* C3 as stated: the column list of an INSERT is in ascending order of the
\* lowercased column names, the i-th bind is the value of the i-th column and
\* a TTL bind comes last.
C3_Original ==
    RenderedAs("insert") =>
        \E q \in Orderings(DOMAIN stmt.fieldMap) : AscendingLowercased(q) /\ InsertedAs(q)

\* C3: the column list of an INSERT holds the lowercased column names in the
\* ascending byte order of the names as supplied (sort.Strings before
\* lowercasing), the i-th bind is the value of the i-th column and a TTL bind
\* comes last.
C3_InsertColumnsSortedAsSupplied ==
    RenderedAs("insert") =>
        \E q \in Orderings(DOMAIN stmt.fieldMap) : AscendingAsSupplied(q) /\ InsertedAs(q)

\* columns "B" and "a" with a TTL: "B" is written first, as "b"
C3_Witness ==
    /\ RenderedAs("insert")
    /\ DOMAIN stmt.fieldMap = {<<"B">>, <<"a">>}
    /\ TTL(stmt) > 0
    /\ Len(out.values) = 3
    /\ InsertedAs(<<<<"B">>, <<"a">>>>)

\* the rendered UPDATE writes the SET clauses of the fields q in that order;
\* identifiers are compared without regard to letter case
UpdatedAs(q, p) ==
    LET clauses == [i \in 1..Len(q) |->
                       IF stmt.fieldMap[q[i]].kind = "modifier"
                       THEN ModifierCQL(stmt.fieldMap[q[i]], q[i], p)
                       ELSE [cql |-> q[i] \o <<" = ", "?">>,
                             values |-> <<stmt.fieldMap[q[i]]>>]]
        rels == [i \in 1..Len(stmt.where) |->
                    generateRelationCQL(stmt.where[i], stmt.keys,
                                        stmt.clusteringSentinelsEnabled)]
        query == <<"UPDATE", " ">> \o stmt.keyspace \o <<".">> \o stmt.table
                 \o (IF stmt.ttl > 0 THEN <<" ", "USING TTL ", "?">> ELSE <<>>)
                 \o <<" ", "SET", " ">>
                 \o Join([i \in 1..Len(q) |-> clauses[i].cql], <<", ">>)
                 \o (IF Len(stmt.where) >= 1
                     THEN <<" ", "WHERE", " ">>
                          \o Join([i \in 1..Len(rels) |-> rels[i].cql], <<" AND ">>)
                     ELSE <<>>)
    IN  /\ ToLower(out.query) = ToLower(query)
        /\ out.values =
               (IF stmt.ttl > 0 THEN <<IntV(stmt.ttl \div 1000)>> ELSE <<>>)
               \o Concat([i \in 1..Len(q) |-> clauses[i].values])
               \o Concat([i \in 1..Len(rels) |-> rels[i].values])

\* C4 as stated: an UPDATE is rendered as UPDATE <ks>.<tbl>, USING TTL ? iff
\* the TTL is positive, SET with one clause per field in sorted order by
\* lowercased field name, then WHERE; the binds are the TTL seconds, the SET
\* binds in clause order and the WHERE binds in relation order.
C4_Original ==
    RenderedAs("update") =>
        \E q \in Orderings(DOMAIN stmt.fieldMap), p \in RangeOrders :
            AscendingLowercased(q) /\ UpdatedAs(q, p)

\* C4: an UPDATE is rendered as UPDATE <ks>.<tbl>, USING TTL ? iff the TTL is
\* positive, SET with one clause per field in the ascending byte order of the
\* field names as supplied, then WHERE; the binds are the TTL seconds, the SET
\* binds in clause order and the WHERE binds in relation order.
C4_UpdateLayout ==
    RenderedAs("update") =>
        \E q \in Orderings(DOMAIN stmt.fieldMap), p \in RangeOrders :
            AscendingAsSupplied(q) /\ UpdatedAs(q, p)

\* fields "B" and "a", one of them set by a Modifier, with a TTL
C4_Witness ==
    /\ RenderedAs("update")
    /\ DOMAIN stmt.fieldMap = {<<"B">>, <<"a">>}
    /\ stmt.fieldMap[<<"a">>].kind = "modifier"
    /\ stmt.fieldMap[<<"B">>].kind = "string"
    /\ stmt.ttl > 0
    /\ Len(stmt.where) = 2
    /\ out.values[1].kind = "int"
    /\ Len(out.values) = 6

\* the places of a string after the first occurrence of the atom from and,
\* when the atom to occurs, before its first occurrence
Between(q, from, to) ==
    {i \in 1..Len(q) :
        /\ \E j \in 1..(i - 1) : q[j] = from
        /\ \A j \in 1..i : q[j] # to}

\* C5: the column identifiers written in a WHERE clause, in the SET clause of
\* an UPDATE (plain assignments and Modifier fragments) and in the column
\* list of an INSERT are lowercased, and the field list of a SELECT is
\* written exactly as supplied.
C5_IdentifiersLowercased ==
    /\ RenderedAs("select") =>
           /\ SubSeq(out.query, 3, 2 + Len(Join(stmt.fields, <<", ">>)))
                  = Join(stmt.fields, <<", ">>)
           /\ \A i \in Between(out.query, "WHERE", "ORDER BY") : ~IsUpper(out.query[i])
    /\ RenderedAs("insert") =>
           \A i \in Between(out.query, "(", ")") : ~IsUpper(out.query[i])
    /\ RenderedAs("update") =>
           /\ \A i \in Between(out.query, "SET", "WHERE") : ~IsUpper(out.query[i])
           /\ \A i \in Between(out.query, "WHERE", "") : ~IsUpper(out.query[i])
    /\ RenderedAs("delete") =>
           \A i \in Between(out.query, " WHERE ", "") : ~IsUpper(out.query[i])

\* a bind as supplied by the caller: its column, where it is bound, its value
Bind(col, place, value) == [col |-> col, place |-> place, value |-> value]

WhereBindsOf(rs) ==
    Concat([i \in 1..Len(rs) |->
               IF rs[i].cmp = "CmpIn"
               THEN <<Bind(rs[i].field, "in", ListV(rs[i].terms))>>
               ELSE [j \in 1..Len(rs[i].terms) |->
                        Bind(rs[i].field,
                             IF rs[i].cmp = "CmpEquality" THEN "eq" ELSE "other",
                             rs[i].terms[j])]])

SetBindsOf(fm, p) ==
    LET names == SortStrings(DOMAIN fm)
    IN  Concat([i \in 1..Len(names) |->
                   IF fm[names[i]].kind = "modifier"
                   THEN LET vs == ModifierCQL(fm[names[i]], names[i], p).values
                        IN  [j \in 1..Len(vs) |-> Bind(names[i], "modifier", vs[j])]
                   ELSE <<Bind(names[i], "set", fm[names[i]])>>])

InsertBindsOf(fm) ==
    LET names == SortStrings(DOMAIN fm)
    IN  [i \in 1..Len(names) |-> Bind(names[i], "insert", fm[names[i]])]

TTLBindOf(s) ==
    IF s.ttl > 0 THEN <<Bind(<<>>, "ttl", IntV(s.ttl \div 1000))>> ELSE <<>>

\* the binds of a statement in the order of their placeholders, as supplied
SuppliedBinds(s, p) ==
    CASE s.typ = "select" ->
            WhereBindsOf(s.where)
            \o (IF s.limit >= 1 THEN <<Bind(<<>>, "limit", IntV(s.limit))>> ELSE <<>>)
      [] s.typ = "insert" -> InsertBindsOf(s.fieldMap) \o TTLBindOf(s)
      [] s.typ = "update" ->
            TTLBindOf(s) \o SetBindsOf(s.fieldMap, p) \o WhereBindsOf(s.where)
      [] s.typ = "delete" -> WhereBindsOf(s.where)

\* the column is one of the declared clustering columns, whatever the case
DeclaredClustering(col, keys) ==
    ToLower(col) \in {ToLower(keys.ClusteringColumns[i]) :
                         i \in 1..Len(keys.ClusteringColumns)}

\* the empty string, a byte slice of no bytes, the zero time
IsEmptyValue(v) ==
    \/ v.kind \in {"string", "bytes"} /\ Len(v.s) = 0
    \/ v.kind = "time" /\ v.n = ZeroTime.n /\ v.m = ZeroTime.m

SentinelFor(v) ==
    CASE v.kind = "string" -> StrV(ClusteringSentinel)
      [] v.kind = "bytes" -> BytesV(ClusteringSentinel)
      [] v.kind = "time" -> ClusteringSentinelTimestamp

\* a statement of any type has been rendered
RenderedAny == stmt.typ # "none" /\ ~err /\ out.ok

\* with sentinels enabled, the empty values bound in the given places for a
\* declared clustering column are rendered as their sentinels
SubstitutedIn(places) ==
    RenderedAny =>
        \E p \in RangeOrders :
            LET b == SuppliedBinds(stmt, p)
            IN  /\ Len(out.values) = Len(b)
                /\ \A i \in 1..Len(b) :
                       ( /\ stmt.clusteringSentinelsEnabled
                         /\ DeclaredClustering(b[i].col, stmt.keys)
                         /\ b[i].place \in places
                         /\ IsEmptyValue(b[i].value) )
                       => out.values[i] = SentinelFor(b[i].value)

\* C6 as stated: with sentinels enabled, an empty value bound for a declared
\* clustering column (matched case-insensitively) is replaced by the sentinel
\* in INSERT column values, in UPDATE SET values and in WHERE Equality values.
C6_Original == SubstitutedIn({"insert", "set", "eq"})

\* C6: with sentinels enabled, an empty value (empty string, byte slice of no
\* bytes, zero time) bound for a declared clustering column (matched
\* case-insensitively) is replaced by the sentinel in INSERT column values
\* and in the WHERE Equality values of SELECT, UPDATE and DELETE.
C6_SentinelSubstituted == SubstitutedIn({"insert", "eq"})

\* an UPDATE whose WHERE binds the zero time to clustering column "b" as "B"
C6_Witness ==
    /\ RenderedAs("update")
    /\ stmt.clusteringSentinelsEnabled
    /\ stmt.keys.ClusteringColumns = <<<<"b">>>>
    /\ stmt.where[Len(stmt.where)] = Eq(<<"B">>, ZeroTime)
    /\ out.values[Len(out.values)] = ClusteringSentinelTimestamp

\* the CQL text of a statement
QueryOf(s, p) ==
    CASE s.typ = "select" -> SelectQueryAndValues(s).query
      [] s.typ = "insert" -> InsertQueryAndValues(s).query
      [] s.typ = "update" -> UpdateQueryAndValues(s, p).query
      [] s.typ = "delete" -> DeleteQueryAndValues(s).query

\* C7: a bind of a column that is not a declared clustering column is
\* rendered as supplied, every bind is rendered as supplied while the
\* sentinel flag is off, the flag is off in every statement a constructor
\* returns, and the CQL text is the same with the flag on and off.
C7_NoSubstitutionElsewhere ==
    /\ (call.fn # "none" /\ ~err) => ~stmt.clusteringSentinelsEnabled
    /\ RenderedAny =>
           \E p \in RangeOrders :
               LET b == SuppliedBinds(stmt, p)
               IN  /\ Len(out.values) = Len(b)
                   /\ \A i \in 1..Len(b) :
                          ( \/ ~stmt.clusteringSentinelsEnabled
                            \/ ~DeclaredClustering(b[i].col, stmt.keys) )
                          => out.values[i] = b[i].value
    /\ RenderedAny =>
           \A p \in RangeOrders, enabled \in BOOLEAN :
               out.query =
                   QueryOf([stmt EXCEPT !.clusteringSentinelsEnabled = enabled], p)

\* an INSERT with sentinels enabled that binds the empty string to partition
\* key "a" and to clustering column "b": only the second is replaced
C7_Witness ==
    /\ RenderedAs("insert")
    /\ stmt.clusteringSentinelsEnabled
    /\ stmt.keys = Keys(<<<<"a">>>>, <<<<"b">>>>)
    /\ stmt.fieldMap = [f \in {<<"B">>, <<"a">>} |-> StrV(<<>>)]
    /\ out.values = <<StrV(ClusteringSentinel), StrV(<<>>)>>

-----------------------------------------------------------------------------
(* Properties of the sentinel functions, under SpecSentinel *)

\* C8: ClusteringFieldOrSentinel returns the sentinel of its kind for the
\* empty string, a byte slice of no bytes and the zero time, and returns
\* every other value (non-empty ones of these types, a value of any other
\* type) unchanged.
C8_SentinelForEmpty ==
    io.fn = "ClusteringFieldOrSentinel" =>
        IF IsEmptyValue(io.arg) THEN io.ret = SentinelFor(io.arg)
        ELSE io.ret = io.arg

\* a byte slice of no bytes comes back as the bytes of the sentinel
C8_Witness ==
    /\ io.fn = "ClusteringFieldOrSentinel"
    /\ io.arg = BytesV(<<>>)
    /\ io.ret = BytesV(ClusteringSentinel)

\* the value is itself the sentinel of its kind
IsSentinel(v) ==
    \/ v.kind \in {"string", "bytes"} /\ v.s = ClusteringSentinel
    \/ /\ v.kind = "time"
       /\ v.n = ClusteringSentinelTimestamp.n
       /\ v.m = ClusteringSentinelTimestamp.m

\* C9 as stated: for every x that is a string, a byte slice or a timestamp,
\* the second result of IsClusteringSentinelValue(ClusteringFieldOrSentinel(x))
\* is x.
C9_Original ==
    (io.chained /\ io.orig.kind \in {"string", "bytes", "time"}) => io.ret = io.orig

\* C9: for every x that is a string, a byte slice or a timestamp and is not
\* itself the sentinel of its kind, the second result of
\* IsClusteringSentinelValue(ClusteringFieldOrSentinel(x)) is x, a nil byte
\* slice coming back as the byte slice of no bytes.
C9_RoundTrip ==
    (io.chained /\ io.orig.kind \in {"string", "bytes", "time"} /\ ~IsSentinel(io.orig))
        => io.ret = [io.orig EXCEPT !.isnil = FALSE]

\* the empty string goes out as the sentinel and comes back empty
C9_Witness ==
    /\ io.chained
    /\ io.orig = StrV(<<>>)
    /\ io.arg = StrV(ClusteringSentinel)
    /\ io.is
    /\ io.ret = StrV(<<>>)

-----------------------------------------------------------------------------
(* Properties of the constructors, under Spec *)

\* C10: a constructor returns an error exactly when the keyspace or the
\* table is empty, a SELECT has no fields, an INSERT or UPDATE has an empty
\* field map, an UPDATE or DELETE has no WHERE relation or the partition keys
\* are empty; otherwise the readers of the statement return the arguments.
C10_ConstructorValidation ==
    LET noTable == call.keyspace = <<>> \/ call.table = <<>>
        noFields == Len(call.fields) = 0
        noFieldMap == DOMAIN call.fieldMap = {}
        noRelation == Len(call.rel) = 0
        noPartitionKey == Len(call.keys.PartitionKeys) = 0
        common == /\ Keyspace(stmt) = call.keyspace
                  /\ Table(stmt) = call.table
                  /\ StatementKeys(stmt) = call.keys
    IN  /\ call.fn = "NewSelectStatement" =>
               /\ err <=> (noTable \/ noFields \/ noPartitionKey)
               /\ ~err => /\ common
                          /\ Fields(stmt) = call.fields
                          /\ Relations(stmt) = call.rel
        /\ call.fn = "NewInsertStatement" =>
               /\ err <=> (noTable \/ noFieldMap \/ noPartitionKey)
               /\ ~err => common /\ FieldMap(stmt) = call.fieldMap
        /\ call.fn = "NewUpdateStatement" =>
               /\ err <=> (noTable \/ noFieldMap \/ noRelation \/ noPartitionKey)
               /\ ~err => /\ common
                          /\ FieldMap(stmt) = call.fieldMap
                          /\ Relations(stmt) = call.rel
        /\ call.fn = "NewDeleteStatement" =>
               /\ err <=> (noTable \/ noRelation \/ noPartitionKey)
               /\ ~err => common /\ Relations(stmt) = call.rel

\* a DELETE refused only because it has no WHERE relation
C10_Witness ==
    /\ call.fn = "NewDeleteStatement"
    /\ err
    /\ call.keyspace # <<>>
    /\ call.table # <<>>
    /\ Len(call.keys.PartitionKeys) = 1
    /\ Len(call.rel) = 0

-----------------------------------------------------------------------------
(* Properties of the TTL and of the Modifiers, under Spec *)

\* the bind of the TTL placeholder: the last bind of an INSERT, the first of
\* an UPDATE
TTLBind ==
    IF stmt.typ = "insert" THEN out.values[Len(out.values)] ELSE out.values[1]

\* C11: an INSERT or UPDATE writes USING TTL ? exactly when the statement
\* carries a TTL, the TTL bind is then the TTL in whole seconds and at least
\* 1, and a statement never carries a zero or negative TTL.
C11_TTLBindAtLeastOne ==
    /\ stmt.ttl >= 0
    /\ (RenderedAs("insert") \/ RenderedAs("update")) =>
           /\ CountOf(out.query, "USING TTL ") = (IF stmt.ttl > 0 THEN 1 ELSE 0)
           /\ stmt.ttl > 0 =>
                  /\ TTLBind = IntV(stmt.ttl \div 1000)
                  /\ TTLBind.n >= 1

\* the first place of an atom in a string
PosOf(q, atom) == CHOOSE i \in 1..Len(q) : q[i] = atom /\ \A j \in 1..(i - 1) : q[j] # atom

\* the UPDATE in hand sets the single column c by a Modifier of one of the ops
SetsByModifier(c, ops) ==
    /\ RenderedAs("update")
    /\ DOMAIN stmt.fieldMap = {c}
    /\ stmt.fieldMap[c].kind = "modifier"
    /\ stmt.fieldMap[c].s[1] \in ops

\* the text between "SET " and " WHERE" of the rendered UPDATE
SetFragment ==
    SubSeq(out.query, PosOf(out.query, "SET") + 2, PosOf(out.query, "WHERE") - 2)

\* the binds of the SET clause: those after the TTL and before the WHERE binds
SetBinds ==
    SubSeq(out.values, 1 + (IF stmt.ttl > 0 THEN 1 ELSE 0),
           Len(out.values) - Len(WhereBindsOf(stmt.where)))

\* C12: CounterIncrement(n) on column c is rendered as c = c + ? for every
\* n >= 0, n = 0 included, and as c = c - ? for every n < 0, and its single
\* bind is the absolute value of n.
C12_CounterIncrementSign ==
    \A c \in FieldNames :
        SetsByModifier(c, {"ModifierCounterIncrement"}) =>
            LET n == stmt.fieldMap[c].l[1].n
            IN  /\ ToLower(SetFragment) =
                       ToLower(c \o <<" = ">> \o c
                               \o <<IF n >= 0 THEN " + " ELSE " - ", "?">>)
                /\ SetBinds = <<IntV(IF n >= 0 THEN n ELSE -n)>>

\* C13: a list or map Modifier on column c is rendered as the modifier table
\* says: ListPrepend(v) as c = ? + c, ListAppend(v) as c = c + ? and
\* ListRemove(v) as c = c - ?, each binding the one-element list [v];
\* ListSetAtIndex(i, v) and MapSetField(k, v) as c[?] = ? binding i, v and
\* k, v; MapSetFields(m) as one c[?] = ? per entry joined by ", ", binding
\* the keys and values of the entries in one order of the entries; the
\* fragment holds as many '?' as there are binds.
C13_ModifierTable ==
    \A c \in FieldNames :
        SetsByModifier(c, {"ModifierListPrepend", "ModifierListAppend",
                           "ModifierListRemove", "ModifierListSetAtIndex",
                           "ModifierMapSetField", "ModifierMapSetFields"}) =>
            LET op == stmt.fieldMap[c].s[1]
                args == stmt.fieldMap[c].l
                at == c \o <<"[", "?", "] = ", "?">>
            IN  /\ CountOf(SetFragment, "?") = Len(SetBinds)
                /\ op = "ModifierListPrepend" =>
                       /\ SetFragment = c \o <<" = ", "?", " + ">> \o c
                       /\ SetBinds = <<ListV(<<args[1]>>)>>
                /\ op = "ModifierListAppend" =>
                       /\ SetFragment = c \o <<" = ">> \o c \o <<" + ", "?">>
                       /\ SetBinds = <<ListV(<<args[1]>>)>>
                /\ op = "ModifierListRemove" =>
                       /\ SetFragment = c \o <<" = ">> \o c \o <<" - ", "?">>
                       /\ SetBinds = <<ListV(<<args[1]>>)>>
                /\ op \in {"ModifierListSetAtIndex", "ModifierMapSetField"} =>
                       /\ SetFragment = at
                       /\ SetBinds = <<args[1], args[2]>>
                /\ op = "ModifierMapSetFields" =>
                       LET entries == args[1].l
                           n == Len(entries) \div 2
                       IN  /\ SetFragment = Join([i \in 1..n |-> at], <<", ">>)
                           /\ \E q \in Orderings(1..n) :
                                  SetBinds = Concat([i \in 1..n |->
                                      <<entries[2 * q[i] - 1], entries[2 * q[i]]>>])

\* a list prepended to column "B" binds the one-element list
C13_Witness ==
    /\ SetsByModifier(<<"B">>, {"ModifierListPrepend"})
    /\ SetFragment = <<"B", " = ", "?", " + ", "B">>
    /\ SetBinds = <<ListV(<<StrV(<<"d">>)>>)>>

-----------------------------------------------------------------------------
(* Properties of the statements over shared memory, under SpecShare *)

\* C14: statements share no mutable state with their inputs or with each
\* other: whatever the caller writes to a collection it passed or got back
\* from FieldMap(), Fields() or Relations(), and whatever statement is
\* derived with a With... call, a statement renders what it rendered before.
C14_NoSharedState ==
    \A i \in 1..Len(held) : seen[i].ok => RenderOf(heap, held[i]) = seen[i]

-----------------------------------------------------------------------------
(* Scanner *)

\* the record no row was bound to
ZeroRecord == "zero"

PointerKinds == {"struct", "slice", "map", "array", "chan", "func", "interface",
                 "unsafeptr", "int"}

\* reflect.Zero of a base kind behind freshly allocated pointers
ZeroOf(base) ==
    IF base = "struct" THEN Value(FALSE, <<ZeroRecord>>) ELSE Value(FALSE, <<>>)

\* the kind of the type under every pointer level; of no type (untyped
\* nil) the call of Kind() panics
getNonPtrType(in) == IF in.base = "nil" THEN "panic" ELSE in.base

allocateNilReference(in) ==
    IF in.depth = 0 THEN [err |-> "nil", result |-> in]
    ELSE IF in.nilAt = 1 THEN [err |-> "ErrNilPointer", result |-> in]
    ELSE IF in.depth = 1 /\ in.base \in {"map", "slice"} /\ ~in.val.isnil
         THEN [err |-> "nil", result |-> in]
    ELSE IF in.base \in {"array", "chan", "func", "interface", "unsafeptr"}
         THEN [err |-> "ErrUnsupportedKind", result |-> in]
    ELSE [err |-> "nil", result |-> [in EXCEPT !.nilAt = 0, !.val = ZeroOf(in.base)]]

\* r.StructFieldMap of a record type
StructFieldMap(kind) == [err |-> kind # "struct"]

\* iter.Next(), the cursor after it, the row at the cursor and iter.Scan
HasNext(it) == it.pos < Len(it.rows)

Advance(it) == [it EXCEPT !.pos = @ + 1]

RowAt(it) == it.rows[it.pos]

ScanFails(it) == it.failAt = it.pos

\* what a function of the scanner leaves: its return, the target and the
\* iterator
Outcome(n, e, in, it) == [ret |-> Return(n, e, FALSE), result |-> in, iter |-> it]

Panicked(in, it) == [ret |-> Return(0, "nil", TRUE), result |-> in, iter |-> it]

iterSingle_lastRow(in, it) ==
    LET a == allocateNilReference(in)
        last == [it EXCEPT !.pos = Len(it.rows)]
    IN  IF a.err # "nil" THEN Outcome(0, a.err, in, it)
        ELSE IF in.depth = 0 THEN Panicked(in, it)
        ELSE IF ~HasNext(it)
             THEN Outcome(0, IF it.err \in {"nil", "ErrNotFound"}
                             THEN "RowNotFoundError" ELSE it.err, a.result, it)
        ELSE IF it.failAt # 0 THEN Outcome(0, "ErrScan", a.result, last)
        ELSE Outcome(1, "nil", [a.result EXCEPT !.val = Value(FALSE, <<RowAt(last)>>)],
                     last)

iterSingle(in, it) ==
    LET a == allocateNilReference(in)
    IN  IF a.err # "nil" THEN Outcome(0, a.err, in, it)
        \* outPtr.Elem() of a value that is no pointer
        ELSE IF in.depth = 0 THEN Panicked(in, it)
        ELSE IF StructFieldMap(getNonPtrType(in)).err
             THEN Outcome(0, "ErrCannotDecode", a.result, it)
        ELSE IF ~HasNext(it)
             THEN Outcome(0, IF it.err \in {"nil", "ErrNotFound"}
                             THEN "RowNotFoundError" ELSE it.err, a.result, it)
        ELSE IF ScanFails(Advance(it)) THEN Outcome(0, "ErrScan", a.result, Advance(it))
        ELSE Outcome(1, "nil",
                     [a.result EXCEPT !.val = Value(FALSE, <<RowAt(Advance(it))>>)],
                     Advance(it))

\* the loop of iterSlice: for iter.Next() { ... }
RECURSIVE scanRows(_, _, _)
scanRows(in, it, n) ==
    IF ~HasNext(it) THEN Outcome(n, "nil", in, it)
    ELSE IF ScanFails(Advance(it)) THEN Outcome(n, "ErrScan", in, Advance(it))
    \* sliceElem.Set of a slice passed by value
    ELSE IF in.depth = 0 THEN Panicked(in, Advance(it))
    ELSE scanRows([in EXCEPT !.val = Value(FALSE, Append(@.rows, RowAt(Advance(it))))],
                  Advance(it), n + 1)

\* sliceElem.Set(reflect.Zero(sliceType)) of a slice that is not empty
ResetSlice(in) == IF Len(in.val.rows) # 0 THEN [in EXCEPT !.val = NoValue] ELSE in

iterSlice_noReset(in, it) ==
    LET a == allocateNilReference(in)
    IN  IF a.err # "nil" THEN Outcome(0, a.err, in, it)
        ELSE IF in.depth = 0 /\ Len(in.val.rows) # 0 THEN Panicked(in, it)
        ELSE scanRows(a.result, it, 0)

iterSlice(in, it) ==
    LET a == allocateNilReference(in)
    IN  IF a.err # "nil" THEN Outcome(0, a.err, in, it)
        ELSE IF in.depth = 0 /\ Len(in.val.rows) # 0 THEN Panicked(in, it)
        ELSE scanRows(ResetSlice(a.result), it, 0)

ScanIter(in, it) ==
    LET kind == getNonPtrType(in)
    IN  IF kind = "panic" THEN Panicked(in, it)
        ELSE IF kind = "slice" THEN iterSlice(in, it)
        ELSE IF kind = "struct" THEN iterSingle(in, it)
        ELSE Outcome(0, "ErrCannotDecode", in, it)

\* the rows, iterators and result targets of the calls
Rows == {"r1", "r2"}

RowLists == UNION {[1..n -> Rows] : n \in 0..MaxRows}

Iters ==
    {it \in {Iter(rows, failAt, e, 0) :
                rows \in RowLists, failAt \in 0..MaxRows,
                e \in {"nil", "ErrNotFound", "ErrIter"}} :
        it.failAt <= Len(it.rows)}

ValuesOf(base) ==
    CASE base = "struct" -> {Value(FALSE, <<ZeroRecord>>), Value(FALSE, <<"r1">>)}
      [] base = "slice" -> {NoValue, Value(FALSE, <<>>), Value(FALSE, <<"r2">>)}
      [] base = "map" -> {NoValue, Value(FALSE, <<>>)}
      [] OTHER -> {Value(FALSE, <<>>)}

TargetsOf(depth, base) ==
    {Target(depth, base, 0, val) : val \in ValuesOf(base)}
    \cup {Target(depth, base, nilAt, NoValue) : nilAt \in 1..depth}

Targets ==
    {UntypedNil}
    \cup UNION {TargetsOf(depth, base) : depth \in 0..MaxDepth, base \in PointerKinds}

CallNewScanner ==
    /\ \E in \in Targets : result' = in
    /\ iter' = NoIter
    /\ returned' = NoReturn
    /\ rowsScanned' = 0
    /\ UNCHANGED <<stmt, call, err, out, io, shareVars, acceptVars, bindVars, mockVars>>

CallScanIter ==
    /\ ~returned.panicked
    /\ \E it \in Iters :
           /\ rowsScanned + Len(it.rows) <= MaxScanned
           /\ LET o == ScanIter(result, it)
              IN  /\ result' = o.result
                  /\ iter' = o.iter
                  /\ returned' = o.ret
                  /\ rowsScanned' = rowsScanned
                         + (IF ~o.ret.panicked /\ o.ret.err = "nil" THEN o.ret.n ELSE 0)
    /\ UNCHANGED <<stmt, call, err, out, io, shareVars, acceptVars, bindVars, mockVars>>

NextScan == CallNewScanner \/ CallScanIter

SpecScan == Init /\ [][NextScan]_vars

-----------------------------------------------------------------------------
(* Properties of the scanner, under SpecScan *)

\* ScanIter has returned (or panicked) on a target of a base kind that is a
\* pointer, at one level or more, none of them nil when ScanIter is done
ScannedInto(base) ==
    /\ returned.called
    /\ result.base = base
    /\ result.depth >= 1
    /\ result.nilAt = 0

ScannedSlice ==
    /\ returned.called
    /\ result.base = "slice"
    /\ ~returned.panicked
    /\ returned.err = "nil"

\* C16: after every successful ScanIter into a slice target, whatever the
\* calls before it left there, the slice holds the rows of the iterator of
\* that call in their order, as many as the call returned, none if the
\* iterator had none.
C16_SliceReplaced ==
    ScannedSlice =>
        /\ result.val.rows = iter.rows
        /\ Len(result.val.rows) = returned.n

\* a second scan into a slice an earlier scan had filled
C16_Witness ==
    /\ ScannedSlice
    /\ result.depth >= 1
    /\ rowsScanned > returned.n
    /\ returned.n = 1
    /\ result.val.rows = iter.rows

\* a target ScanIter is not made for: anything but a pointer, itself not
\* nil, at one level or more to a record or to a slice
BadTarget ==
    ~(result.depth >= 1 /\ result.base \in {"struct", "slice"} /\ result.nilAt # 1)

\* C17: on a result target that is not a pointer, itself not nil, to a record
\* or to a slice of records, ScanIter does not panic: it returns an error and
\* scans no row.
C17_BadTargetNoPanic ==
    (returned.called /\ BadTarget) =>
        /\ ~returned.panicked
        /\ returned.err # "nil"
        /\ iter.pos = 0

\* C18: an error of the iterator during a scan into a record or a slice is
\* returned by ScanIter: the error of Scan on any row, and the error Err()
\* reports when Next has returned false.
C18_IteratorErrorsReturned ==
    (returned.called /\ ~BadTarget /\ ~returned.panicked) =>
        /\ (iter.failAt # 0 /\ iter.pos = iter.failAt) => returned.err = "ErrScan"
        /\ (/\ iter.err = "ErrIter"
            /\ iter.failAt = 0
            /\ result.base = "struct" => Len(iter.rows) = 0)
               => returned.err = "ErrIter"

-----------------------------------------------------------------------------
(* Relation evaluation *)

\* a time.Duration and an int64, both counted in seconds as the time.Time of
\* kind "time" is: the factor to nanoseconds is common to all three
DurationV(n) == Val("duration", <<>>, n, 0, FALSE, <<>>)

Int64V(n) == Val("int64", <<>>, n, 0, FALSE, <<>>)

UnixNano(v) == v.n * 100000 + v.m

Nanoseconds(v) == v.n

convertToPrimitive(i) ==
    CASE i.kind = "time" -> Int64V(UnixNano(i))
      [] i.kind = "duration" -> Int64V(Nanoseconds(i))
      [] i.kind = "bytes" -> StrV(i.s)
      [] i.kind \in {"string", "namedstring"} -> StrV(i.s)
      [] OTHER -> i

\* the dynamic types Go cannot compare with ==: slices
Uncomparable == {"bytes", "namedbytes", "list"}

\* a == b of two interface values: false for different dynamic types, a
\* run-time panic for one and the same type that cannot be compared
InterfaceEquals(a, b) ==
    IF a.kind # b.kind THEN Answer(FALSE, FALSE)
    ELSE IF a.kind \in Uncomparable THEN Answer(FALSE, TRUE)
    ELSE Answer(a = b, FALSE)

\* the loop of anyEquals from the k-th term on
RECURSIVE anyEqualsFrom(_, _, _)
anyEqualsFrom(primVal, terms, k) ==
    IF k > Len(terms) THEN Answer(FALSE, FALSE)
    ELSE LET e == InterfaceEquals(primVal, convertToPrimitive(terms[k]))
         IN  IF e.panicked \/ e.result THEN e
             ELSE anyEqualsFrom(primVal, terms, k + 1)

anyEquals_firstTerm(value, terms) ==
    anyEqualsFrom(convertToPrimitive(value), SubSeq(terms, 1, Min(1, Len(terms))), 1)

anyEquals(value, terms) == anyEqualsFrom(convertToPrimitive(value), terms, 1)

\* the kinds the comparison functions order
OrderedKinds == {"int", "int64", "string"}

Compared(res, e) == [result |-> res, err |-> e]

builtinLessThan(a, b) ==
    IF a.kind # b.kind \/ a.kind \notin OrderedKinds THEN Compared(FALSE, TRUE)
    ELSE IF a.kind = "string" THEN Compared(StrLess(a.s, b.s), FALSE)
    ELSE Compared(a.n < b.n, FALSE)

builtinGreaterThan(a, b) ==
    IF a.kind # b.kind \/ a.kind \notin OrderedKinds THEN Compared(FALSE, TRUE)
    ELSE IF a.kind = "string" THEN Compared(StrLess(b.s, a.s), FALSE)
    ELSE Compared(a.n > b.n, FALSE)

\* result = result || a == b; return err == nil && result
OrEquals(c, a, b) ==
    IF c.result THEN Answer(~c.err, FALSE)
    ELSE LET e == InterfaceEquals(a, b)
         IN  IF e.panicked THEN e ELSE Answer(~c.err /\ e.result, FALSE)

accept_strict(r, i) ==
    IF r.cmp \in {"CmpEquality", "CmpIn"} THEN anyEquals(i, r.terms)
    ELSE IF Len(r.terms) = 0 THEN Answer(FALSE, TRUE)
    ELSE LET a == convertToPrimitive(i)
             b == convertToPrimitive(r.terms[1])
             gt == builtinGreaterThan(a, b)
             lt == builtinLessThan(a, b)
         IN  CASE r.cmp \in {"CmpGreaterThan", "CmpGreaterThanOrEquals"} ->
                      Answer(~gt.err /\ gt.result, FALSE)
               [] r.cmp \in {"CmpLesserThan", "CmpLesserThanOrEquals"} ->
                      Answer(~lt.err /\ lt.result, FALSE)
               [] OTHER -> Answer(FALSE, FALSE)

accept(r, i) ==
    IF r.cmp \in {"CmpEquality", "CmpIn"} THEN anyEquals(i, r.terms)
    \* r.Terms()[0] of no terms
    ELSE IF Len(r.terms) = 0 THEN Answer(FALSE, TRUE)
    ELSE LET a == convertToPrimitive(i)
             b == convertToPrimitive(r.terms[1])
             gt == builtinGreaterThan(a, b)
             lt == builtinLessThan(a, b)
         IN  CASE r.cmp = "CmpGreaterThan" -> Answer(~gt.err /\ gt.result, FALSE)
               [] r.cmp = "CmpGreaterThanOrEquals" -> OrEquals(gt, a, b)
               [] r.cmp = "CmpLesserThanOrEquals" -> OrEquals(lt, a, b)
               [] r.cmp = "CmpLesserThan" -> Answer(~lt.err /\ lt.result, FALSE)
               [] OTHER -> Answer(FALSE, FALSE)

\* the stored values and the terms accept is asked about
CellValues ==
    {StrV(<<>>), StrV(<<"x">>), StrV(<<"y">>), StrV(<<"x", "y">>), NamedStrV(<<"x">>),
     BytesV(<<"x">>), NilBytes, TimeV(0, 1), TimeV(0, 2), DurationV(1), IntV(1),
     IntV(2), StructV, NilV, ListV(<<>>)}

\* the terms of the In relations
InTermValues == {StrV(<<"x">>), StrV(<<"y">>), BytesV(<<"x">>), TimeV(0, 1), ListV(<<>>)}

TermLists == UNION {[1..n -> InTermValues] : n \in 0..MaxTerms}

\* a relation accept was not asked about yet
Unasked ==
    /\ accepted' = NoAnswer
    /\ UNCHANGED <<stmt, call, err, out, io, shareVars, scanVars, cell, bindVars, mockVars>>

CallEq ==
    \E term \in CellValues :
        /\ relation' = Eq(<<"a">>, term)
        /\ Unasked

CallIn ==
    \E terms \in TermLists :
        /\ relation' = In(<<"a">>, terms)
        /\ Unasked

CallGT ==
    \E term \in CellValues :
        /\ relation' = GT(<<"a">>, term)
        /\ Unasked

CallGTE ==
    \E term \in CellValues :
        /\ relation' = GTE(<<"a">>, term)
        /\ Unasked

CallLT ==
    \E term \in CellValues :
        /\ relation' = LT(<<"a">>, term)
        /\ Unasked

CallLTE ==
    \E term \in CellValues :
        /\ relation' = LTE(<<"a">>, term)
        /\ Unasked

CallAccept ==
    /\ relation.field # <<>>
    /\ \E i \in CellValues :
           /\ cell' = i
           /\ accepted' = accept(relation, i)
    /\ UNCHANGED <<stmt, call, err, out, io, shareVars, scanVars, relation, bindVars, mockVars>>

NextAccept ==
    \/ CallEq
    \/ CallIn
    \/ CallGT
    \/ CallGTE
    \/ CallLT
    \/ CallLTE
    \/ CallAccept

SpecAccept == Init /\ [][NextAccept]_vars

-----------------------------------------------------------------------------
(* Properties of relation evaluation, under SpecAccept *)

Accepts(r, i) == accept(r, i).result /\ ~accept(r, i).panicked

\* the count a timestamp or a duration is coerced to
CountOfTime(v) == IF v.kind = "time" THEN UnixNano(v) ELSE Nanoseconds(v)

\* C19: accept of an Equality or In relation compares the coerced forms of
\* the stored value and the terms (a timestamp and a duration as their
\* count, a byte slice and a value of string kind as their string): In of
\* terms accepts a value exactly when Eq of one of the terms does, so In of no
\* terms accepts nothing, and Eq of a accepts b as Eq of b accepts a.
C19_EqualityOfCoercedForms ==
    accepted.called =>
        /\ relation.cmp = "CmpIn" =>
               /\ accepted.result =
                      (\E k \in 1..Len(relation.terms) : Accepts(Eq(relation.field, relation.terms[k]), cell))
               /\ Len(relation.terms) = 0 => ~accepted.result /\ ~accepted.panicked
        /\ relation.cmp = "CmpEquality" =>
               /\ accepted = accept(Eq(relation.field, cell), relation.terms[1])
               /\ ~accepted.panicked =>
                      accepted.result = (convertToPrimitive(cell) = convertToPrimitive(relation.terms[1]))
               /\ (/\ cell.kind \in {"string", "namedstring", "bytes"}
                   /\ relation.terms[1].kind \in {"string", "namedstring", "bytes"})
                      => accepted = Answer(cell.s = relation.terms[1].s, FALSE)
               /\ (/\ cell.kind \in {"time", "duration"}
                   /\ relation.terms[1].kind \in {"time", "duration"})
                      => accepted = Answer(CountOfTime(cell) = CountOfTime(relation.terms[1]), FALSE)

\* In of two terms accepts a byte slice for its second term, a string
C19_Witness ==
    /\ accepted = Answer(TRUE, FALSE)
    /\ relation = In(<<"a">>, <<StrV(<<"y">>), StrV(<<"x">>)>>)
    /\ cell = BytesV(<<"x">>)

RangeComparators ==
    {"CmpGreaterThan", "CmpGreaterThanOrEquals", "CmpLesserThan", "CmpLesserThanOrEquals"}

\* accept has answered for a range relation
RangeAsked == accepted.called /\ relation.cmp \in RangeComparators

\* whether the relation of a comparator with the term asked about accepts the
\* value asked about
AcceptsBy(cmp) ==
    IF relation.cmp = cmp THEN accepted.result /\ ~accepted.panicked
    ELSE Accepts(Rel(cmp, relation.field, relation.terms), cell)

\* the kinds of the coerced forms of the value and the term asked about
CellKind == convertToPrimitive(cell).kind

TermKind == convertToPrimitive(relation.terms[1]).kind

\* exactly one of LT, Eq and GT accepts, GTE is GT or Eq, LTE is LT or Eq
OrderedAnswers ==
    /\ \E c \in {"CmpLesserThan", "CmpEquality", "CmpGreaterThan"} :
           /\ AcceptsBy(c)
           /\ \A d \in {"CmpLesserThan", "CmpEquality", "CmpGreaterThan"} \ {c} :
                  ~AcceptsBy(d)
    /\ AcceptsBy("CmpGreaterThanOrEquals")
           = (AcceptsBy("CmpGreaterThan") \/ AcceptsBy("CmpEquality"))
    /\ AcceptsBy("CmpLesserThanOrEquals")
           = (AcceptsBy("CmpLesserThan") \/ AcceptsBy("CmpEquality"))

-----------------------------------------------------------------------------
(* The clauses of the SET part, under Spec *)

\* the places of the ', ' separators in a text
SeparatorsOf(q) == {i \in 1..Len(q) : q[i] = ", "}

\* a text that is clauses joined by ', ' has an empty clause when it is
\* empty, starts or ends with a separator, or holds two separators in a row
HasEmptyClause(q) ==
    \/ q = <<>>
    \/ 1 \in SeparatorsOf(q)
    \/ Len(q) \in SeparatorsOf(q)
    \/ \E i \in SeparatorsOf(q) : i + 1 \in SeparatorsOf(q)

\* C30: for every UpdateStatement accepted by NewUpdateStatement, the
\* rendered SET part is one non-empty clause per field-map entry, separated
\* by ', ': no field, MapSetFields of an empty map included, contributes an
\* empty clause.
C30_NoEmptySetClause ==
    RenderedAs("update") =>
        /\ ~HasEmptyClause(SetFragment)
        /\ Cardinality(SeparatorsOf(SetFragment)) + 1 >= Cardinality(DOMAIN stmt.fieldMap)

-----------------------------------------------------------------------------
(* Binding a row, cell by cell: part_000.  The scanner of "Scanner" binds  *)
(* whole rows; here the same functions are followed over the fields of the *)
(* record, for a target of type *T.                                        *)

MaxCols == 2

MaxCellRows == 1

\* &IgnoreFieldType{}: the bind target that swallows its cell
Sink == <<"IgnoreFieldType">>

\* reflect.Value.FieldByIndex panics when the path leads through a nil
\* embedded pointer
NilOnPath(structVal, index) ==
    \E k \in 1..(Len(index) - 1) :
        /\ SubSeq(index, 1, k) \in EmbeddedPointers
        /\ ~structVal.ptrs[SubSeq(index, 1, k)]

Pointers(ptrs, structVal, panicked) ==
    [ptrs |-> ptrs, structVal |-> structVal, panicked |-> panicked]

RECURSIVE generatePtrsFrom(_, _, _, _, _)
\* the loop of generatePtrs from the i-th field on: a bind target is the
\* sink or the address of a field, held as the field's lowercased name
generatePtrsFrom(i, fields, fieldMap, structVal, ptrs) ==
    IF i > Len(fields) THEN Pointers(ptrs, structVal, FALSE)
    ELSE LET name == ToLower(fields[i])
             ignored == generatePtrsFrom(i + 1, fields, fieldMap, structVal,
                                         Append(ptrs, Sink))
         IN  IF name \notin DOMAIN fieldMap THEN ignored
             ELSE LET field == fieldMap[name]
                      elem == structVal.cells[name]
                      made == IF reflectKind(field.typ) \in {"Map", "Slice"} /\ elem.isnil
                              THEN reflectMake(field.typ) ELSE elem
                  IN  IF /\ Len(field.index) > 1
                         /\ <<field.index[1]>> \in EmbeddedPointers
                         /\ ~structVal.ptrs[<<field.index[1]>>]
                      THEN ignored
                      ELSE IF NilOnPath(structVal, field.index)
                      THEN Pointers(ptrs, structVal, TRUE)
                      ELSE generatePtrsFrom(i + 1, fields, fieldMap,
                                            [structVal EXCEPT !.cells[name] = made],
                                            Append(ptrs, name))

generatePtrs(fields, fieldMap, structVal) ==
    generatePtrsFrom(1, fields, fieldMap, structVal, <<>>)

\* a cell of a row as the iterator delivers it: null, the clustering
\* sentinel of the column's type, or data
CellKinds == {"null", "sentinel", "data"}

\* what iter.Scan leaves in a field of the type for a cell: null gives the
\* zero value, so a nil slice or map
Unmarshal(typ, c) ==
    IF c = "null" THEN reflectZero(typ)
    ELSE CASE typ \in {"string", "namedstring", "bytes", "namedbytes"} ->
                  Val(typ, IF c = "sentinel" THEN ClusteringSentinel ELSE <<"x">>,
                      0, 0, FALSE, <<>>)
           [] typ = "time" ->
                  IF c = "sentinel" THEN ClusteringSentinelTimestamp ELSE TimeV(0, 1)
           [] OTHER -> Val(typ, <<>>, 0, 0, FALSE, <<StrV(<<"x">>)>>)

RECURSIVE Scan(_, _, _)
\* iter.Scan(ptrs...): a row whose cells are all of one kind
Scan(ptrs, structVal, c) ==
    IF ptrs = <<>> THEN structVal
    ELSE Scan(Tail(ptrs),
              IF Head(ptrs) = Sink THEN structVal
              ELSE [structVal EXCEPT !.cells[Head(ptrs)] =
                        Unmarshal(StructFields[Head(ptrs)].typ, c)],
              c)

removeSentinelValues_kept(ptrs, structVal) == structVal

RECURSIVE removeSentinelValues(_, _)
removeSentinelValues(ptrs, structVal) ==
    IF ptrs = <<>> THEN structVal
    ELSE removeSentinelValues(
             Tail(ptrs),
             IF Head(ptrs) = Sink THEN structVal
             ELSE LET is == IsClusteringSentinelValue(structVal.cells[Head(ptrs)])
                  IN  IF is[1] THEN [structVal EXCEPT !.cells[Head(ptrs)] = is[2]]
                      ELSE structVal)

RECURSIVE fillInZeroedPtrs(_, _)
fillInZeroedPtrs(ptrs, structVal) ==
    IF ptrs = <<>> THEN structVal
    ELSE fillInZeroedPtrs(
             Tail(ptrs),
             IF Head(ptrs) = Sink THEN structVal
             ELSE LET elem == structVal.cells[Head(ptrs)]
                  IN  IF reflectKind(elem.kind) \in {"Map", "Slice"} /\ elem.isnil
                      THEN [structVal EXCEPT !.cells[Head(ptrs)] = reflectMake(elem.kind)]
                      ELSE structVal)

\* what a scan leaves in the record and what it reports
Scanned(structVal, b) == [structVal |-> structVal, binding |-> b]

\* iterSingle for a target of type *T holding the record before
bindSingle(fields, before, it) ==
    LET allocated == ZeroStruct
        g == generatePtrs(fields, StructFields, allocated)
        done(n, e) == Binding("iterSingle", it, before, g.ptrs, FALSE, <<>>, n, e, FALSE)
    IN  IF g.panicked
        THEN Scanned(g.structVal,
                     Binding("iterSingle", it, before, g.ptrs, FALSE, <<>>, 0, "nil", TRUE))
        ELSE IF it.rows = <<>>
        THEN Scanned(g.structVal,
                     done(0, IF it.err \in {"nil", "ErrNotFound"}
                             THEN "RowNotFoundError" ELSE it.err))
        ELSE IF it.scanFails THEN Scanned(g.structVal, done(0, "ErrScan"))
        ELSE Scanned(fillInZeroedPtrs(g.ptrs,
                         removeSentinelValues(g.ptrs, Scan(g.ptrs, g.structVal, it.rows[1]))),
                     Binding("iterSingle", it, before, g.ptrs, TRUE, <<>>, 1, "nil", FALSE))

RECURSIVE bindRows(_, _, _, _)
\* the loop of iterSlice from the i-th row on
bindRows(i, fields, it, elems) ==
    IF i > Len(it.rows)
    THEN Binding("iterSlice", it, ZeroStruct, <<>>, Len(elems) > 0, elems, Len(elems), "nil", FALSE)
    ELSE LET g == generatePtrs(fields, StructFields, ZeroStruct)
         IN  IF g.panicked
             THEN Binding("iterSlice", it, ZeroStruct, g.ptrs, Len(elems) > 0, elems, 0, "nil", TRUE)
             ELSE IF it.scanFails
             THEN Binding("iterSlice", it, ZeroStruct, g.ptrs, Len(elems) > 0, elems,
                          Len(elems), "ErrScan", FALSE)
             ELSE bindRows(i + 1, fields, it,
                           Append(elems,
                                  fillInZeroedPtrs(g.ptrs,
                                      removeSentinelValues(g.ptrs,
                                          Scan(g.ptrs, g.structVal, it.rows[i])))))

\* iterSlice for a target of type *[]T
bindSlice(fields, it) == bindRows(1, fields, it, <<>>)

\* the names a statement selects: fields of T in either case, and a column T
\* has no field for
SelectedNames ==
    {ToLower(f) : f \in DOMAIN StructFields}
    \cup {<<"N", "a", "m", "e">>, <<"z", "z">>}

SelectedLists == UNION {[1..k -> SelectedNames] : k \in 0..MaxCols}

\* the records a caller hands in: fresh, or used before
Records ==
    {ZeroStruct,
     [ZeroStruct EXCEPT !.ptrs = [p \in EmbeddedPointers |-> TRUE],
                        !.cells[<<"n", "a", "m", "e">>] = StrV(<<"x">>),
                        !.cells[<<"n", "o", "t", "e">>] = StrV(<<"x">>)]}

\* iterators of no row, with what Err() then reports, and of rows, the Scan
\* of which may fail
CellIters ==
    {CellIter(<<>>, e, FALSE) : e \in {"nil", "ErrNotFound", "ErrTimeout"}}
    \cup {CellIter(rows, "nil", f) :
              rows \in UNION {[1..k -> CellKinds] : k \in 1..MaxCellRows},
              f \in BOOLEAN}

\* NewScanner(stmt, &t) for a statement selecting the fields and a record t
CallNewBinding ==
    /\ scanned.fn = "none"
    /\ \E fields \in SelectedLists, t \in Records :
           /\ selected' = fields
           /\ outVal' = t
    /\ scanned' = [NoBinding EXCEPT !.fn = "NewScanner"]
    /\ UNCHANGED <<stmt, call, err, out, io, shareVars, scanVars, acceptVars, mockVars>>

\* ScanIter(iter) of a scanner whose target is the record
CallBindSingle ==
    /\ scanned.fn = "NewScanner"
    /\ \E it \in CellIters :
           LET s == bindSingle(selected, outVal, it)
           IN  /\ outVal' = s.structVal
               /\ scanned' = s.binding
    /\ UNCHANGED <<stmt, call, err, out, io, shareVars, scanVars, acceptVars, mockVars, selected>>

\* ScanIter(iter) of a scanner whose target is a slice of records
CallBindSlice ==
    /\ scanned.fn = "NewScanner"
    /\ outVal = ZeroStruct
    /\ \E it \in CellIters : scanned' = bindSlice(selected, it)
    /\ UNCHANGED <<stmt, call, err, out, io, shareVars, scanVars, acceptVars, mockVars, selected, outVal>>

\* the caller is done with the scanner and its target
DropBinding ==
    /\ scanned.called
    /\ selected' = <<>>
    /\ outVal' = ZeroStruct
    /\ scanned' = NoBinding
    /\ UNCHANGED <<stmt, call, err, out, io, shareVars, scanVars, acceptVars, mockVars>>

NextBind == CallNewBinding \/ CallBindSingle \/ CallBindSlice \/ DropBinding

SpecBind == Init /\ [][NextBind]_vars

-----------------------------------------------------------------------------
(* Properties of the binding of a row, under SpecBind *)

\* the record generatePtrs is given: allocateNilReference and iterSlice hand
\* it a fresh one
Fresh == ZeroStruct

\* the bind target of a selected name is the sink
Unbound(name) ==
    \/ ToLower(name) \notin DOMAIN StructFields
    \/ NilOnPath(Fresh, StructFields[ToLower(name)].index)

\* C27: the scanner builds exactly one bind target per selected column, in
\* order, and never panics: the target is the no-op sink when no field
\* matches the column case-insensitively or when the field's index path
\* passes through an embedded pointer record that is nil, at any depth;
\* otherwise it is the address of the matching field, a nil map or slice
\* field being first replaced by an empty one.
C27_OneTargetPerColumn ==
    (scanned.fn = "iterSingle" \/ scanned.panicked) =>
        /\ ~scanned.panicked
        /\ Len(scanned.ptrs) = Len(selected)
        /\ \A i \in 1..Len(selected) :
               IF Unbound(selected[i]) THEN scanned.ptrs[i] = Sink
               ELSE /\ scanned.ptrs[i] = ToLower(selected[i])
                    /\ ~outVal.cells[scanned.ptrs[i]].isnil

\* the cells of a record that were bound: the fields the targets point to
BoundCells(ptrs) == {ptrs[i] : i \in 1..Len(ptrs)} \ {Sink}

\* a bound cell of the record, delivered as a cell of kind c, is as C28 says
Stripped(structVal, f, c) ==
    LET v == structVal.cells[f]
    IN  /\ v.kind = StructFields[f].typ
        /\ v.kind \in {"string", "namedstring", "bytes", "namedbytes"} =>
               v.s # ClusteringSentinel
        /\ v.kind = "time" => ~TimeEqual(v, ClusteringSentinelTimestamp)
        /\ (c = "sentinel" /\ v.kind \notin {"list", "map"}) =>
               v = EmptyOfType(v)
        /\ v.kind \in {"bytes", "namedbytes", "list", "map"} => ~v.isnil

\* C28: after a row is bound, no bound string, byte-slice or timestamp cell
\* equals the clustering sentinel (it is reset to the empty value of its
\* declared type, named string and byte-slice types included), and every
\* bound slice or map cell is non-nil, also when the iterator delivered null
\* for it.
C28_SentinelsStripped ==
    /\ (scanned.fn = "iterSingle" /\ scanned.rowBound) =>
           \A f \in BoundCells(scanned.ptrs) : Stripped(outVal, f, scanned.it.rows[1])
    /\ scanned.fn = "iterSlice" =>
           \A k \in 1..Len(scanned.elems) :
               \A f \in {ToLower(selected[i]) : i \in 1..Len(selected)}
                        \cap DOMAIN StructFields :
                   ~Unbound(f) => Stripped(scanned.elems[k], f, scanned.it.rows[k])

\* a row of sentinels bound to a named string and a named byte slice
C28_Witness ==
    /\ scanned.fn = "iterSingle"
    /\ scanned.rowBound
    /\ scanned.it.rows = <<"sentinel">>
    /\ selected = <<<<"l", "a", "b", "e", "l">>, <<"b", "l", "o", "b">>>>
    /\ outVal.cells[<<"l", "a", "b", "e", "l">>] = NamedStrV(<<>>)
    /\ outVal.cells[<<"b", "l", "o", "b">>] = NamedBytesV(<<>>)

\* C29: when a single-record scan fails with RowNotFoundError (or with any
\* iterator error before a row is bound), the target record is left exactly
\* as it was before the call: no field is written, no nil map, slice or
\* pointer is allocated.
C29_TargetUntouched ==
    (scanned.fn = "iterSingle" /\ ~scanned.rowBound /\ scanned.err # "nil") =>
        outVal = scanned.before

-----------------------------------------------------------------------------
(* Mock row store: the store, its operations, multi-ops and error          *)
(* injectors as the tests of part_001 and sections 4.5 and 8 describe them *)

MaxStoreRows == 2

MaxOps == 3

KeyTuple(cols, row) == [i \in 1..Len(cols) |-> row[cols[i]]]

PartitionOf(t, row) == KeyTuple(t.keys.PartitionKeys, row)

ClusteringOf(t, row) == KeyTuple(t.keys.ClusteringColumns, row)

PrimaryKey(t) == t.keys.PartitionKeys \o t.keys.ClusteringColumns

\* an empty key part: the empty string, the zero timestamp, a blob of no bytes
zero(v) ==
    \/ v.kind \in {"string", "bytes"} /\ Len(v.s) = 0
    \/ v.kind = "time" /\ TimeEqual(v, ZeroTime)

validKey_anyPart(t, row) ==
    \E i \in 1..Len(PrimaryKey(t)) : ~zero(row[PrimaryKey(t)[i]])

\* the primary-key check of a write (TestEmptyPrimaryKey): a key of which
\* every part is empty is refused when the partition key is one column
validKey(t, row) ==
    \/ Len(t.keys.PartitionKeys) > 1
    \/ \E i \in 1..Len(PrimaryKey(t)) : ~zero(row[PrimaryKey(t)[i]])

RECURSIVE before_ascending(_, _, _)
before_ascending(a, b, order) ==
    IF a = <<>> THEN FALSE
    ELSE IF Head(a) = Head(b) THEN before_ascending(Tail(a), Tail(b), Tail(order))
    ELSE StrLess(Head(a).s, Head(b).s)

RECURSIVE before(_, _, _)
\* the clustering tuple a comes before b: column by column, each column in
\* its direction
before(a, b, order) ==
    IF a = <<>> THEN FALSE
    ELSE IF Head(a) = Head(b) THEN before(Tail(a), Tail(b), Tail(order))
    ELSE IF Head(order) = "DESC" THEN StrLess(Head(b).s, Head(a).s)
    ELSE StrLess(Head(a).s, Head(b).s)

\* the rows of a partition, and the store with the rows of a partition replaced
PartitionRows(rows, pk) == IF pk \in DOMAIN rows THEN rows[pk] ELSE <<>>

WithPartition(rows, pk, list) ==
    IF list = <<>> THEN [k \in DOMAIN rows \ {pk} |-> rows[k]]
    ELSE [k \in DOMAIN rows \cup {pk} |-> IF k = pk THEN list ELSE rows[k]]

Without(t, list, ck) == SelectSeq(list, LAMBDA r : ClusteringOf(t, r) # ck)

\* upsert by full primary key, at the place the clustering order gives the row
Upsert(t, rows, row) ==
    LET pk == PartitionOf(t, row)
        ck == ClusteringOf(t, row)
        others == Without(t, PartitionRows(rows, pk), ck)
        lead == SelectSeq(others, LAMBDA r : before(ClusteringOf(t, r), ck, t.order))
        rest == SelectSeq(others, LAMBDA r : ~before(ClusteringOf(t, r), ck, t.order))
    IN  WithPartition(rows, pk, lead \o <<row>> \o rest)

Effect(rows, e, read) == [rows |-> rows, err |-> e, read |-> read]

mockSet_replaceAll(t, rows, row) ==
    IF ~validKey(t, row) THEN Effect(rows, "ErrEmptyKey", <<>>)
    ELSE Effect(WithPartition(rows, PartitionOf(t, row), <<row>>), "nil", <<>>)

\* Set(row).Run()
mockSet(t, rows, row) ==
    IF ~validKey(t, row) THEN Effect(rows, "ErrEmptyKey", <<>>)
    ELSE Effect(Upsert(t, rows, row), "nil", <<>>)

\* the relations of a WHERE that constrain a column by Equality or In
Constraining(where, col) ==
    {i \in 1..Len(where) : where[i].field = col /\ where[i].cmp \in {"CmpEquality", "CmpIn"}}

Constrained(where, cols) ==
    \A i \in 1..Len(cols) : Constraining(where, cols[i]) # {}

RECURSIVE Expand(_, _)
\* the key tuples a WHERE names over the columns, in the order In expands them
Expand(where, cols) ==
    IF cols = <<>> THEN <<<<>>>>
    ELSE LET terms == where[CHOOSE i \in Constraining(where, Head(cols)) : TRUE].terms
             rest == Expand(where, Tail(cols))
         IN  Concat([i \in 1..Len(terms) |->
                        [j \in 1..Len(rest) |-> <<terms[i]>> \o rest[j]]])

\* a row satisfies every relation of the WHERE
Matches(where, row) ==
    \A i \in 1..Len(where) : accept(where[i], row[where[i].field]).result

\* Where(relations...).Read(): the partitions of the WHERE in turn, the rows
\* of each in stored order
mockRead(t, rows, where) ==
    IF ~Constrained(where, t.keys.PartitionKeys) THEN Effect(rows, "ErrPartition", <<>>)
    ELSE LET pks == Expand(where, t.keys.PartitionKeys)
         IN  Effect(rows, "nil",
                      Concat([i \in 1..Len(pks) |->
                                 SelectSeq(PartitionRows(rows, pks[i]),
                                           LAMBDA r : Matches(where, r))]))

\* Where(relations...).ReadOne()
mockReadOne(t, rows, where) ==
    LET all == mockRead(t, rows, where)
    IN  IF all.err # "nil" THEN all
        ELSE IF all.read = <<>> THEN Effect(rows, "RowNotFoundError", <<>>)
        ELSE Effect(rows, "nil", <<all.read[1]>>)

RECURSIVE DeleteFrom(_, _, _, _)
DeleteFrom(t, rows, where, pks) ==
    IF pks = <<>> THEN rows
    ELSE DeleteFrom(t,
                    WithPartition(rows, Head(pks),
                                  SelectSeq(PartitionRows(rows, Head(pks)),
                                            LAMBDA r : ~Matches(where, r))),
                    where, Tail(pks))

\* Where(relations...).Delete()
mockDelete(t, rows, where) ==
    IF ~Constrained(where, t.keys.PartitionKeys) THEN Effect(rows, "ErrPartition", <<>>)
    ELSE Effect(DeleteFrom(t, rows, where, Expand(where, t.keys.PartitionKeys)), "nil", <<>>)

\* the row of a full key tuple, with the name
RowOf(t, key, name) ==
    [c \in DOMAIN NoRow |->
        IF \E i \in 1..Len(PrimaryKey(t)) : PrimaryKey(t)[i] = c
        THEN key[CHOOSE i \in 1..Len(PrimaryKey(t)) : PrimaryKey(t)[i] = c]
        ELSE IF c = <<"Name">> THEN name ELSE StrV(<<>>)]

RECURSIVE UpdateEach(_, _, _, _, _)
\* the rows of the key tuples in turn: a row that is there gets the name, a
\* row that is not is created or not
UpdateEach(t, rows, keys, name, creates) ==
    IF keys = <<>> THEN rows
    ELSE LET row == RowOf(t, Head(keys), name)
             there == \E i \in 1..Len(PartitionRows(rows, PartitionOf(t, row))) :
                          ClusteringOf(t, PartitionRows(rows, PartitionOf(t, row))[i])
                              = ClusteringOf(t, row)
         IN  UpdateEach(t,
                        IF there \/ (creates /\ validKey(t, row))
                        THEN Upsert(t, rows, row) ELSE rows,
                        Tail(keys), name, creates)

mockUpdate_equalityOnly(t, rows, where, name, creates) ==
    IF \/ ~Constrained(where, PrimaryKey(t))
       \/ \E i \in 1..Len(where) : where[i].cmp = "CmpIn"
    THEN Effect(rows, "ErrWhere", <<>>)
    ELSE Effect(UpdateEach(t, rows, Expand(where, PrimaryKey(t)), name, creates),
                  "nil", <<>>)

\* Where(relations...).Update({"Name": name}) (TestTableUpdate): every key
\* column is constrained by Equality or In, and every row named is updated
mockUpdate(t, rows, where, name, creates) ==
    IF ~Constrained(where, PrimaryKey(t)) THEN Effect(rows, "ErrWhere", <<>>)
    ELSE Effect(UpdateEach(t, rows, Expand(where, PrimaryKey(t)), name, creates),
                  "nil", <<>>)

\* one operation of a multi-op
mockRunOp(t, rows, op) ==
    CASE op.kind = "Set" -> mockSet(t, rows, op.row)
      [] op.kind = "Delete" -> mockDelete(t, rows, op.where)
      [] OTHER -> mockUpdate(t, rows, op.where, op.name, FALSE)

Injects_firstOnly(injector, idx) ==
    \/ injector.kind = "FailOnNthOperation" /\ idx + 1 = injector.n
    \/ injector.kind = "FailOnEachOperation" /\ idx = 0 /\ injector.opIdxToFail = 0

\* whether the injector fails the operation of the index (0-based)
Injects(injector, idx) ==
    \/ injector.kind = "FailOnNthOperation" /\ idx + 1 = injector.n
    \/ injector.kind = "FailOnEachOperation" /\ idx = injector.opIdxToFail

\* the injector after it failed the operation of the index, and after a run
\* in which it failed none
Injected(injector, idx) ==
    IF injector.kind = "FailOnEachOperation"
    THEN ErrorInjector(injector.kind, injector.n, idx + 1, idx, TRUE)
    ELSE injector

Exhausted(injector) ==
    IF injector.kind = "FailOnEachOperation"
    THEN ErrorInjector(injector.kind, injector.n, injector.opIdxToFail, -1, FALSE)
    ELSE injector

Ran(rows, e, executed, injector) ==
    [rows |-> rows, err |-> e, executed |-> executed, injector |-> injector]

RECURSIVE mockRunFrom(_, _, _, _, _)
\* the operations of a multi-op from the i-th on, one at a time in the order
\* they were added: the first error ends the run
mockRunFrom(t, rows, ops, i, injector) ==
    IF i > Len(ops) THEN Ran(rows, "nil", Len(ops), Exhausted(injector))
    ELSE IF Injects(injector, i - 1)
    THEN Ran(rows, "ErrInjected", i - 1, Injected(injector, i - 1))
    ELSE LET o == mockRunOp(t, rows, ops[i])
         IN  IF o.err # "nil" THEN Ran(rows, o.err, i - 1, Exhausted(injector))
             ELSE mockRunFrom(t, o.rows, ops, i + 1, injector)

mockRun_rollback(t, rows, ops, injector) ==
    LET r == mockRunFrom(t, rows, ops, 1, injector)
    IN  IF r.err = "nil" THEN r ELSE [r EXCEPT !.rows = rows]

mockRun_skipFailed(t, rows, ops, injector) ==
    LET r == mockRunFrom(t, rows, ops, 1, injector)
    IN  IF r.err = "nil" \/ r.executed + 1 >= Len(ops) THEN r
        ELSE [r EXCEPT !.rows = mockRunFrom(t, r.rows, ops, r.executed + 2, NeverFail).rows]

\* op.RunWithContext(ctx) of a multi-op
mockRun(t, rows, ops, injector) == mockRunFrom(t, rows, ops, 1, injector)

-----------------------------------------------------------------------------
(* The tables, rows and WHEREs of the mock's callers, and their calls *)

\* MapTable("users", "Pk1"), a table of the partition key Pk1, Pk2 and
\* Table("users", Keys{Pk1; Ck1, Ck2}) with ClusteringOrder Ck1 DESC, Ck2 ASC
MockTables ==
    {MockTable(Keys(<<<<"Pk1">>>>, <<>>), <<>>),
     MockTable(Keys(<<<<"Pk1">>, <<"Pk2">>>>, <<>>), <<>>),
     MockTable(Keys(<<<<"Pk1">>>>, <<<<"Ck1">>, <<"Ck2">>>>), <<"DESC", "ASC">>)}

Names == {StrV(<<"x">>), StrV(<<"y">>)}

\* the values of a key column: empty or not, and for a key of one column
\* the empty values of the other types
KeyValues(t) ==
    {StrV(<<>>), StrV(<<"1">>)}
    \cup (IF Len(PrimaryKey(t)) = 1 THEN {StrV(<<"2">>), ZeroTime, BytesV(<<>>)} ELSE {})

\* the keys written and asked for; with clustering columns: three keys of a
\* partition that differ in the first and in the second clustering column,
\* and two keys of the partition of the empty value, one of them all empty
KeyTuples(t) ==
    {key \in [1..Len(PrimaryKey(t)) -> KeyValues(t)] :
         Len(t.keys.ClusteringColumns) = 2 =>
             IF key[1] = StrV(<<>>) THEN key[2] = key[3]
             ELSE key[2] # StrV(<<>>) \/ key[3] # StrV(<<>>)}

MockRows(t) == {RowOf(t, key, name) : key \in KeyTuples(t), name \in Names}

\* Eq on every key column; In on the last partition-key column; Eq on the
\* partition-key columns only
EqWheres(t) ==
    {[i \in 1..Len(key) |-> Eq(PrimaryKey(t)[i], key[i])] : key \in KeyTuples(t)}

InWheres(t) ==
    {[w EXCEPT ![Len(t.keys.PartitionKeys)] =
          In(PrimaryKey(t)[Len(t.keys.PartitionKeys)], <<StrV(<<"1">>), StrV(<<>>)>>)] :
         w \in EqWheres(t)}

PartitionWheres(t) ==
    {SubSeq(w, 1, Len(t.keys.PartitionKeys)) : w \in EqWheres(t) \cup InWheres(t)}

RECURSIVE SizeOver(_, _)
SizeOver(rows, pks) ==
    IF pks = {} THEN 0
    ELSE LET pk == CHOOSE k \in pks : TRUE
         IN  Len(rows[pk]) + SizeOver(rows, pks \ {pk})

\* the number of rows of the store
Size(rows) == SizeOver(rows, DOMAIN rows)

\* a single operation ran
Operated(op, o) ==
    /\ Size(o.rows) <= MaxStoreRows
    /\ mockRows' = o.rows
    /\ mockDone' = Done(op, o.err, o.read, 0, 0)
    /\ UNCHANGED <<stmt, call, err, out, io, shareVars, scanVars, acceptVars, bindVars,
                   mockTable, mockOps, errorInjector>>

\* ks.MapTable(...), ks.MultimapMultiKeyTable(...), ks.Table(...)
CallTable ==
    /\ mockTable = NoTable
    /\ mockTable' \in MockTables
    /\ UNCHANGED <<stmt, call, err, out, io, shareVars, scanVars, acceptVars, bindVars,
                   mockRows, mockOps, errorInjector, mockDone>>

CallSet ==
    /\ mockTable # NoTable
    /\ \E row \in MockRows(mockTable) :
           Operated(MockOp("Set", row, <<>>, NilV), mockSet(mockTable, mockRows, row))

CallUpdate ==
    /\ mockTable # NoTable
    /\ \E where \in EqWheres(mockTable) \cup InWheres(mockTable) \cup PartitionWheres(mockTable) :
           \E creates \in BOOLEAN :
               LET o == mockUpdate(mockTable, mockRows, where, StrV(<<"y">>), creates)
               IN  Operated(MockOp("Update", NoRow, where, StrV(<<"y">>)), o)

CallDelete ==
    /\ mockTable # NoTable
    /\ \E where \in EqWheres(mockTable) \cup InWheres(mockTable) :
           Operated(MockOp("Delete", NoRow, where, NilV),
                    mockDelete(mockTable, mockRows, where))

CallRead ==
    /\ mockTable # NoTable
    /\ \E where \in PartitionWheres(mockTable) :
           Operated(MockOp("Read", NoRow, where, NilV),
                    mockRead(mockTable, mockRows, where))

CallReadOne ==
    /\ mockTable # NoTable
    /\ \E where \in EqWheres(mockTable) :
           Operated(MockOp("ReadOne", NoRow, where, NilV),
                    mockReadOne(mockTable, mockRows, where))

NextMock == CallTable \/ CallSet \/ CallUpdate \/ CallDelete \/ CallRead \/ CallReadOne

SpecMock == Init /\ [][NextMock]_vars

-----------------------------------------------------------------------------
(* Properties of the mock row store, under SpecMock *)

\* the rows of the store, and those of a full primary key
Stored(rows) == UNION {{rows[k][i] : i \in 1..Len(rows[k])} : k \in DOMAIN rows}

FullKey(t, row) == KeyTuple(PrimaryKey(t), row)

RowsAt(t, rows, key) == {r \in Stored(rows) : FullKey(t, r) = key}

\* the WHERE is an Equality on every column of the primary key, and the key
\* it names
ByFullKey(t, where) ==
    /\ Len(where) = Len(PrimaryKey(t))
    /\ \A i \in 1..Len(where) :
           where[i].cmp = "CmpEquality" /\ where[i].field = PrimaryKey(t)[i]

KeyNamed(where) == [i \in 1..Len(where) |-> where[i].terms[1]]

\* the rows of every key but the one are as they were
OthersKept(t, key) ==
    \A k \in KeyTuples(t) \ {key} : RowsAt(t, mockRows', k) = RowsAt(t, mockRows, k)

\* C21: in the mock store, after any sequence of Set and Delete operations
\* on a table, a single-row Read by full primary key returns the record of
\* the most recent Set on that key if no later Delete removed it, and
\* RowNotFoundError otherwise; Set is an upsert, so there is at most one row
\* per full primary key.  Step by step: a Set leaves its record as the one
\* row of its key, a Delete leaves no row of its key, both leave every other
\* key alone, and a Read returns the row of its key or RowNotFoundError.
C21_ReadYourWrites ==
    [][LET t == mockTable'
           d == mockDone'
       IN  /\ \A key \in KeyTuples(t) : Cardinality(RowsAt(t, mockRows', key)) <= 1
           /\ (d.op.kind = "Set" /\ d.err = "nil") =>
                  /\ RowsAt(t, mockRows', FullKey(t, d.op.row)) = {d.op.row}
                  /\ OthersKept(t, FullKey(t, d.op.row))
           /\ (d.op.kind = "Delete" /\ ByFullKey(t, d.op.where)) =>
                  /\ d.err = "nil"
                  /\ RowsAt(t, mockRows', KeyNamed(d.op.where)) = {}
                  /\ OthersKept(t, KeyNamed(d.op.where))
           /\ (d.op.kind = "ReadOne" /\ ByFullKey(t, d.op.where)) =>
                  /\ mockRows' = mockRows
                  /\ IF RowsAt(t, mockRows, KeyNamed(d.op.where)) = {}
                     THEN d.err = "RowNotFoundError" /\ d.rows = <<>>
                     ELSE /\ d.err = "nil"
                          /\ Len(d.rows) = 1
                          /\ RowsAt(t, mockRows, KeyNamed(d.op.where)) = {d.rows[1]}
      ]_vars

\* a row read back by its key, next to another row of the table
C21_Witness ==
    /\ mockDone.op.kind = "ReadOne"
    /\ mockDone.err = "nil"
    /\ Len(mockDone.rows) = 1
    /\ mockDone.rows[1][<<"Name">>] = StrV(<<"y">>)
    /\ Size(mockRows) = 2

\* a clustering tuple comes before another in the table's clustering order:
\* at the first column they differ in, the greater value first when the
\* column is DESC and the lesser first when it is ASC
InClusteringOrder(a, b, order) ==
    \E k \in 1..Len(a) :
        /\ \A j \in 1..(k - 1) : a[j] = b[j]
        /\ a[k] # b[k]
        /\ IF order[k] = "DESC" THEN StrLess(b[k].s, a[k].s) ELSE StrLess(a[k].s, b[k].s)

SortedRows(t, list) ==
    \A i \in 1..Len(list) : \A j \in (i + 1)..Len(list) :
        InClusteringOrder(ClusteringOf(t, list[i]), ClusteringOf(t, list[j]), t.order)

\* the WHERE is an Equality on every column of the partition key
ByPartition(t, where) ==
    /\ Len(where) = Len(t.keys.PartitionKeys)
    /\ \A i \in 1..Len(where) :
           where[i].cmp = "CmpEquality" /\ where[i].field = t.keys.PartitionKeys[i]

\* C22: the rows of every partition of a mock table are kept sorted by the
\* table's clustering order, column by column with each column's own
\* direction (Ck1 DESC then Ck2 ASC), after any sequence of inserts and
\* updates in any order, and a read of a partition without ORDER BY returns
\* them in that order.
C22_ClusteringOrder ==
    /\ \A pk \in DOMAIN mockRows : SortedRows(mockTable, mockRows[pk])
    /\ (mockDone.op.kind = "Read" /\ ByPartition(mockTable, mockDone.op.where)) =>
           /\ mockDone.err = "nil"
           /\ mockDone.rows = PartitionRows(mockRows, KeyNamed(mockDone.op.where))
           /\ SortedRows(mockTable, mockDone.rows)

\* a partition read as two rows, the greater Ck1 first
C22_Witness ==
    /\ mockDone.op.kind = "Read"
    /\ Len(mockDone.rows) = 2
    /\ mockTable.order = <<"DESC", "ASC">>
    /\ mockDone.rows[1][<<"Ck1">>] = StrV(<<"1">>)
    /\ mockDone.rows[2][<<"Ck1">>] = StrV(<<>>)

\* every part of the primary key of the row is empty
AllPartsEmpty(t, row) == \A i \in 1..Len(PrimaryKey(t)) : zero(row[PrimaryKey(t)[i]])

\* the Set just run failed and left the store as it was; it succeeded and
\* left its row in the store
SetRefused == mockDone'.err # "nil" /\ mockRows' = mockRows

SetStored == mockDone'.err = "nil" /\ mockDone'.op.row \in Stored(mockRows')

\* C25 as stated: a write fails exactly when every part of its primary key
\* is empty, whether the key is one column or composite.
C25_Original ==
    [][mockDone'.op.kind = "Set" =>
           IF AllPartsEmpty(mockTable', mockDone'.op.row) THEN SetRefused ELSE SetStored
      ]_vars

\* C25: a mock write to a table with a single-column primary key fails and
\* leaves the store unchanged when that column's value is empty (empty
\* string, zero timestamp, zero-length blob); a write with a composite key
\* succeeds when at least one key part is non-empty; when every key part is
\* empty it fails if the partition key is one column and succeeds if the
\* partition key has several columns.
C25_EmptyPrimaryKey ==
    [][mockDone'.op.kind = "Set" =>
           IF /\ AllPartsEmpty(mockTable', mockDone'.op.row)
              /\ Len(mockTable'.keys.PartitionKeys) = 1
           THEN SetRefused ELSE SetStored
      ]_vars

\* a row of which every key part is empty, stored
C25_Witness ==
    /\ mockDone.op.kind = "Set"
    /\ mockDone.err = "nil"
    /\ AllPartsEmpty(mockTable, mockDone.op.row)
    /\ mockDone.op.row \in Stored(mockRows)

\* the WHERE of the Update just run uses In
UsesIn(where) == \E i \in 1..Len(where) : where[i].cmp = "CmpIn"

\* the stored rows a WHERE over every key column names
Named(t, where, rows) ==
    LET keys == Expand(where, PrimaryKey(t))
    IN  {r \in Stored(rows) : \E i \in 1..Len(keys) : keys[i] = FullKey(t, r)}

\* C26 as stated: an Update must constrain every key column by Equality; an
\* Update whose WHERE uses In on a key column is rejected and changes no row.
C26_Original ==
    [][mockDone'.op.kind = "Update" =>
           IF ByFullKey(mockTable', mockDone'.op.where)
           THEN mockDone'.err = "nil"
           ELSE mockDone'.err # "nil" /\ mockRows' = mockRows
      ]_vars

\* C26: a mock Update targets the rows its WHERE names: every partition-key
\* and clustering column must be constrained by an Equality or an In
\* relation, and an Update that leaves a key column unconstrained is
\* rejected and changes no row; an Update whose WHERE uses In on a key
\* column is permitted and sets the fields in every stored row the WHERE
\* names, leaving the other stored rows as they were.
C26_UpdateTargets ==
    [][mockDone'.op.kind = "Update" =>
           LET t == mockTable'
               where == mockDone'.op.where
           IN  IF Constrained(where, PrimaryKey(t))
               THEN /\ mockDone'.err = "nil"
                    /\ \A r \in Named(t, where, mockRows) :
                           [r EXCEPT ![<<"Name">>] = mockDone'.op.name] \in Stored(mockRows')
                    /\ \A r \in Stored(mockRows) \ Named(t, where, mockRows) :
                           r \in Stored(mockRows')
                    /\ \A r \in Named(t, where, mockRows') :
                           r[<<"Name">>] = mockDone'.op.name
               ELSE mockDone'.err # "nil" /\ mockRows' = mockRows
      ]_vars

\* an Update by In on Pk1 that named both rows of the store
C26_Witness ==
    /\ mockDone.op.kind = "Update"
    /\ mockDone.err = "nil"
    /\ UsesIn(mockDone.op.where)
    /\ Size(mockRows) = 2
    /\ Cardinality(DOMAIN mockRows) = 2
    /\ Named(mockTable, mockDone.op.where, mockRows) = Stored(mockRows)
    /\ \A r \in Stored(mockRows) : r[<<"Name">>] = StrV(<<"y">>)

-----------------------------------------------------------------------------
(* Multi-ops under an error injector: TestErrorInjectors *)

\* the keys of the rows a multi-op sets: two keys that are not empty and the
\* key of which every part is empty
BatchKeys(t) ==
    {[i \in 1..Len(PrimaryKey(t)) |-> StrV(<<"1">>)],
     [i \in 1..Len(PrimaryKey(t)) |->
         IF Len(PrimaryKey(t)) = 1 THEN StrV(<<"2">>)
         ELSE IF i < Len(PrimaryKey(t)) THEN StrV(<<"1">>) ELSE StrV(<<>>)],
     [i \in 1..Len(PrimaryKey(t)) |-> StrV(<<>>)]}

BatchRows(t) ==
    {RowOf(t, key, StrV(<<"x">>)) : key \in BatchKeys(t)}
    \cup {RowOf(t, [i \in 1..Len(PrimaryKey(t)) |-> StrV(<<"1">>)], StrV(<<"y">>))}

\* op = op.Add(table.Set(row))
CallAdd ==
    /\ mockTable # NoTable
    /\ mockDone.runs = 0
    /\ errorInjector = NeverFail
    /\ Len(mockOps) < MaxOps
    /\ \E row \in BatchRows(mockTable) :
           mockOps' = Append(mockOps, MockOp("Set", row, <<>>, NilV))
    /\ UNCHANGED <<stmt, call, err, out, io, shareVars, scanVars, acceptVars, bindVars,
                   mockTable, mockRows, errorInjector, mockDone>>

\* ErrorInjectorContext(ctx, FailOnNthOperation(n, err))
CallFailOnNthOperation ==
    /\ mockTable # NoTable
    /\ mockDone.runs = 0
    /\ errorInjector = NeverFail
    /\ \E n \in 1..MaxOps : errorInjector' = FailOnNthOperation(n)
    /\ UNCHANGED <<stmt, call, err, out, io, shareVars, scanVars, acceptVars, bindVars,
                   mockTable, mockRows, mockOps, mockDone>>

\* ErrorInjectorContext(ctx, FailOnEachOperation(err))
CallFailOnEachOperation ==
    /\ mockTable # NoTable
    /\ mockDone.runs = 0
    /\ errorInjector = NeverFail
    /\ errorInjector' = FailOnEachOperation
    /\ UNCHANGED <<stmt, call, err, out, io, shareVars, scanVars, acceptVars, bindVars,
                   mockTable, mockRows, mockOps, mockDone>>

\* op.RunWithContext(ctx): once, and again while the injector says to continue
CallRunWithContext ==
    /\ mockTable # NoTable
    /\ mockDone.runs = 0 \/ errorInjector.shouldContinue
    /\ LET r == mockRun(mockTable, mockRows, mockOps, errorInjector)
       IN  /\ mockRows' = r.rows
           /\ errorInjector' = r.injector
           /\ mockDone' = Done(MockOp("Run", NoRow, <<>>, NilV), r.err, <<>>,
                               r.executed, mockDone.runs + 1)
    /\ UNCHANGED <<stmt, call, err, out, io, shareVars, scanVars, acceptVars, bindVars,
                   mockTable, mockOps>>

NextBatch ==
    \/ CallTable
    \/ CallAdd
    \/ CallFailOnNthOperation
    \/ CallFailOnEachOperation
    \/ CallRunWithContext

SpecBatch == Init /\ [][NextBatch]_vars

-----------------------------------------------------------------------------
(* Properties of multi-ops, under SpecBatch *)

\* the write is refused for its key
Refused(t, op) == AllPartsEmpty(t, op.row) /\ Len(t.keys.PartitionKeys) = 1

\* the operations a run gets to (1-based) that end it: those the injector
\* fails and those that fail themselves
Ending(t, ops, injector) ==
    {i \in 1..Len(ops) : Injects(injector, i - 1) \/ Refused(t, ops[i])}

\* the first operation that ends the run, or one past the last
FirstEnding(t, ops, injector) ==
    IF Ending(t, ops, injector) = {} THEN Len(ops) + 1
    ELSE CHOOSE i \in Ending(t, ops, injector) : \A j \in Ending(t, ops, injector) : i <= j

\* the operations before the f-th that set the key
Setting(t, ops, f, key) == {i \in 1..(f - 1) : FullKey(t, ops[i].row) = key}

\* C23: a multi-op executes its operations one at a time in the order they
\* were added; when an operation returns an error (the n-th under
\* FailOnNthOperation(n, err), or a write that is refused), the run returns
\* exactly that error, the effects of the earlier operations stay in the
\* store (no rollback) and no later operation is executed.
C23_SequentialNoRollback ==
    [][mockDone'.op.kind = "Run" =>
           LET t == mockTable
               f == FirstEnding(t, mockOps, errorInjector)
           IN  /\ mockDone'.executed = f - 1
               /\ mockDone'.err =
                      (IF f > Len(mockOps) THEN "nil"
                       ELSE IF Injects(errorInjector, f - 1) THEN "ErrInjected"
                       ELSE "ErrEmptyKey")
               /\ \A key \in KeyTuples(t) :
                      RowsAt(t, mockRows', key) =
                          (IF Setting(t, mockOps, f, key) = {}
                           THEN RowsAt(t, mockRows, key)
                           ELSE {mockOps[CHOOSE i \in Setting(t, mockOps, f, key) :
                                            \A j \in Setting(t, mockOps, f, key) : j <= i].row})
      ]_vars

\* FailOnNthOperation(2, err) on three Sets of three keys: the first is in
\* the store, the others are not
C23_Witness ==
    /\ mockDone.op.kind = "Run"
    /\ errorInjector = FailOnNthOperation(2)
    /\ mockDone.err = "ErrInjected"
    /\ Len(mockOps) = 3
    /\ Cardinality({FullKey(mockTable, mockOps[i].row) : i \in 1..3}) = 3
    /\ Stored(mockRows) = {mockOps[1].row}

\* C24: under FailOnEachOperation(err), a batch of N operations run
\* repeatedly fails N times: the k-th run (k = 1..N) returns err with
\* LastErrorInjectedAtIdx() = k-1 and ShouldContinue() = true; the (N+1)-th
\* run returns no error, with ShouldContinue() = false and
\* LastErrorInjectedAtIdx() = -1, after which every one of the N writes is
\* readable (the last write of each key).
C24_FailOnEach ==
    ( /\ errorInjector.kind = "FailOnEachOperation"
      /\ mockDone.op.kind = "Run"
      /\ \A i \in 1..Len(mockOps) : ~Refused(mockTable, mockOps[i]) ) =>
        LET N == Len(mockOps)
            k == mockDone.runs
        IN  /\ k <= N + 1
            /\ k <= N =>
                   /\ mockDone.err = "ErrInjected"
                   /\ errorInjector.lastErrorInjectedAtIdx = k - 1
                   /\ errorInjector.shouldContinue
            /\ k = N + 1 =>
                   /\ mockDone.err = "nil"
                   /\ ~errorInjector.shouldContinue
                   /\ errorInjector.lastErrorInjectedAtIdx = -1
                   /\ \A i \in 1..N :
                          (\A j \in (i + 1)..N :
                               FullKey(mockTable, mockOps[j].row)
                                   # FullKey(mockTable, mockOps[i].row)) =>
                              RowsAt(mockTable, mockRows, FullKey(mockTable, mockOps[i].row))
                                  = {mockOps[i].row}

\* the fourth run of three Sets: no error, and the rows are in the store
C24_Witness ==
    /\ errorInjector.kind = "FailOnEachOperation"
    /\ Len(mockOps) = 3
    /\ mockDone.runs = 4
    /\ mockDone.err = "nil"
    /\ ~errorInjector.shouldContinue
    /\ Size(mockRows) >= 2

=============================================================================
